---- MODULE Spec2Model ----
(***************************************************************************)
(* A model of arrow/util/io_util.cc: the file-descriptor operations        *)
(* (open, close, seek, tell, size, chunked read / positioned read / write),*)
(* MemoryMapRemap and TemporaryDir, over a small model of the operating    *)
(* system state they act on (a disk, a descriptor table, memory mappings), *)
(* and the directory operations, file names, signal handlers, environment  *)
(* variables and console streams, over the process state they act on.     *)
(* The three build branches of the source (#ifdef _WIN32, __APPLE__, else) *)
(* are the three values of the variable platform.                          *)
(***************************************************************************)
EXTENDS Integers, Sequences, FiniteSets, TLC

VARIABLES
    platform,   \* the build branch: "linux", "apple" or "win32"
    disk,       \* path -> [kind, data]: the files the descriptors refer to
    fdtab,      \* descriptor -> open file description (or closed)
    call,       \* thread -> the io_util call it is in, or last returned from
    plan,       \* the byte sequence a round-trip run writes and reads back
    maps,       \* the memory mappings of the file that are active
    remap,      \* the last MemoryMapRemap call: its arguments and results
    fs,         \* node of the temporary root -> "none", "dir" or "file"
    objs,       \* the TemporaryDir objects made so far
    last,       \* the last directory operation and what it returned
    sigs,       \* signal number -> the disposition installed in the process
    recent,     \* signal number -> the handler of the last successful Set
    environ,    \* the environment: name -> value, or unset
    console,    \* the console streams: pos_ of each, and the state of std::cin
    names,      \* the last PlatformFilename::FromString call and its result
    jdbc        \* one JDBC consumer: its fields and what it has been given

vars == <<platform, disk, fdtab, call, plan, maps, remap, fs, objs, last,
          sigs, recent, environ, console, names, jdbc>>

\* The process state outside files and directories.
procVars == <<sigs, recent, environ, console, names, jdbc>>

\* The directory state, which the file and mapping operations leave alone.
tmpVars == <<fs, objs, last>>
\* What the file operations leave alone.
others == <<maps, remap, tmpVars, procVars>>

(***************************************************************************)
(* Bounds                                                                  *)
(***************************************************************************)
\* Stands for ARROW_MAX_IO_CHUNKSIZE (0x7ffff000, INT32_MAX on macOS and
\* Windows), scaled down so that transfers cross the chunk boundary.
MaxIoChunk == 2
\* The longest file the model lets the program make.
MaxFileLen == 3
\* The longest file name text.
MaxNameLen == 3
\* The longest value of an environment variable.
MaxValueLen == 3
\* Stands for bufsize (2000), the size of GetEnvVar's buffer on Windows,
\* scaled down so that a value can be too long for it.
bufsize == 3
\* The furthest position of a console stream.
MaxPos == 4

Byte == 0 .. 1
\* What a destination buffer holds where nothing was stored yet.
Uninit == -1

Platforms == {"linux", "apple", "win32"}
Threads == {"t1", "t2"}
Fds == {3}
FilePath == "a.bin"
DirPath == "dir"
Paths == {FilePath, DirPath}

Min(a, b) == IF a < b THEN a ELSE b
Max(a, b) == IF a > b THEN a ELSE b

SeqsUpTo(S, n) == UNION {[1 .. k -> S] : k \in 0 .. n}
\* The buffers a caller passes: every length from 0 to past the chunk size.
Buffers == SeqsUpTo(Byte, Min(MaxIoChunk + 1, MaxFileLen))

(***************************************************************************)
(* The operating system: disk and descriptor table                         *)
(***************************************************************************)
NoFile == [kind |-> "none", data |-> <<>>]
Directory == [kind |-> "dir", data |-> <<>>]
RegularFile(d) == [kind |-> "file", data |-> d]

\* append records the append argument the handle was opened with.
ClosedFd == [open |-> FALSE, path |-> "", pos |-> 0, oflag |-> {}, append |-> FALSE]

\* open(2) hands out the lowest descriptor that is not open.
LowestFreeFd == CHOOSE fd \in Fds :
                    /\ ~fdtab[fd].open
                    /\ \A g \in Fds : ~fdtab[g].open => fd <= g

CanRead(f) == f.open /\ f.oflag \cap {"O_RDONLY", "O_RDWR"} # {}
CanWrite(f) == f.open /\ f.oflag \cap {"O_WRONLY", "O_RDWR"} # {}

\* Whether open(path, oflag) can succeed at all (it may still fail).
OsOpenPossible(path, oflag) ==
    /\ \E fd \in Fds : ~fdtab[fd].open
    /\ disk[path].kind = "none" => "O_CREAT" \in oflag
    /\ disk[path].kind = "dir" =>
          /\ platform # "win32"
          /\ oflag \cap {"O_WRONLY", "O_RDWR", "O_CREAT", "O_TRUNC"} = {}

\* The disk after a successful open(path, oflag).
OsOpenDisk(path, oflag) ==
    IF disk[path].kind = "none"
    THEN [disk EXCEPT ![path] = RegularFile(<<>>)]
    ELSE IF "O_TRUNC" \in oflag /\ disk[path].kind = "file"
         THEN [disk EXCEPT ![path] = RegularFile(<<>>)]
         ELSE disk

OsOpenFd(path, oflag) ==
    [open |-> TRUE, path |-> path, pos |-> 0, oflag |-> oflag, append |-> FALSE]

SEEK_SET == "SEEK_SET"
SEEK_CUR == "SEEK_CUR"
SEEK_END == "SEEK_END"

\* lseek: the new offset, or -1.
SeekTarget(f, pos, whence) ==
    CASE whence = SEEK_SET -> pos
      [] whence = SEEK_CUR -> f.pos + pos
      [] whence = SEEK_END -> Len(disk[f.path].data) + pos

\* io_util.cc:424 lseek64_compat: the results the call can have.
lseek64_compat(f, pos, whence) ==
    {-1} \cup (IF f.open /\ SeekTarget(f, pos, whence) >= 0
               THEN {SeekTarget(f, pos, whence)} ELSE {})

\* The bytes of data from offset pos (0-based), at most count of them.
BytesAt(data, pos, count) ==
    IF pos >= Len(data) THEN <<>>
    ELSE SubSeq(data, pos + 1, Min(Len(data), pos + count))

\* read(2) / pread(2) of count bytes at offset pos: -1, 0 at end of file,
\* or any positive count up to what is there.
OsReadResults(f, pos, count) ==
    {-1} \cup (IF ~CanRead(f) THEN {}
               ELSE IF Len(BytesAt(disk[f.path].data, pos, count)) = 0 THEN {0}
               ELSE 1 .. Len(BytesAt(disk[f.path].data, pos, count)))

\* data with chunk stored at offset pos; a gap past the end reads as zeros.
OverlayAt(data, pos, chunk) ==
    [i \in 1 .. Max(Len(data), pos + Len(chunk)) |->
        IF i > pos /\ i <= pos + Len(chunk) THEN chunk[i - pos]
        ELSE IF i <= Len(data) THEN data[i] ELSE 0]

\* Where write(2) puts its bytes: O_APPEND moves the offset to the end of
\* the file before each write.
OsWriteOffset(f) ==
    IF "O_APPEND" \in f.oflag THEN Len(disk[f.path].data) ELSE f.pos

\* write(2) of count bytes: -1, or the number of bytes taken.
OsWriteResults(f, count) ==
    {-1} \cup (IF CanWrite(f) THEN 0 .. count ELSE {})

\* A destination buffer with chunk stored at offset off.
StoreAt(buf, off, chunk) ==
    [i \in 1 .. Len(buf) |->
        IF i > off /\ i <= off + Len(chunk) THEN chunk[i - off] ELSE buf[i]]

(***************************************************************************)
(* Calls                                                                   *)
(***************************************************************************)
NoRemap == [status |-> "none"]

Idle == [op |-> "none", pc |-> "done", status |-> "OK", fd |-> -1]

Returned(t, op) == call[t].op = op /\ call[t].pc = "done"
Quiet(t) == call[t].pc = "done"

\* io_util.cc:432 CheckFileOpResult
CheckFileOpResult(ret) == IF ret = -1 THEN "IOError" ELSE "OK"

\* io_util.cc:643 FileClose: close(2) gives the descriptor up whatever it
\* returns (Linux, macOS and the Windows CRT all do).
FileCloseStatusAlwaysOK(ret) == "OK"

\* io_util.cc:652-655: the status FileClose gives for what close returned.
FileCloseStatus(ret) == IF ret = -1 THEN "IOError" ELSE "OK"

FileClose(t, fd) ==
    /\ Quiet(t)
    /\ fdtab[fd].open
    /\ \A u \in Threads : Quiet(u) \/ call[u].fd # fd
    /\ \E ret \in {0, -1} :
          call' = [call EXCEPT ![t] =
                      [op |-> "close", pc |-> "done",
                       status |-> FileCloseStatus(ret), fd |-> fd, ret |-> ret]]
    /\ fdtab' = [fdtab EXCEPT ![fd] = ClosedFd]
    /\ UNCHANGED <<platform, disk, plan, others>>

PostOpenClosesNotForDirectory(fstat_ret, isdir) == fstat_ret = -1

\* io_util.cc:460-472: after open(O_RDONLY) succeeded, FileOpenReadable
\* closes the descriptor when fstat failed or the path is a directory.
PostOpenCloses(fstat_ret, isdir) == fstat_ret = -1 \/ isdir

\* io_util.cc:464-475: the status after the post-open check.
PostOpenStatus(fstat_ret, isdir) ==
    IF fstat_ret # -1 /\ isdir THEN "IOError" ELSE CheckFileOpResult(fstat_ret)

\* io_util.cc:449 FileOpenReadable
FileOpenReadable(t, path) ==
    /\ Quiet(t)
    /\ \E opened \in {FALSE, OsOpenPossible(path, {"O_RDONLY"})}, fstat_ret \in {0, -1} :
          LET fd == LowestFreeFd
              isdir == disk[path].kind = "dir"
          IN  IF ~opened
              THEN /\ call' = [call EXCEPT ![t] =
                          [op |-> "open_r", pc |-> "done", path |-> path,
                           status |-> CheckFileOpResult(-1), fd |-> -1]]
                   /\ fdtab' = fdtab
              ELSE IF platform = "win32"
              THEN /\ call' = [call EXCEPT ![t] =
                          [op |-> "open_r", pc |-> "done", path |-> path,
                           status |-> CheckFileOpResult(fd), fd |-> fd]]
                   /\ fdtab' = [fdtab EXCEPT ![fd] = OsOpenFd(path, {"O_RDONLY"})]
              ELSE /\ call' = [call EXCEPT ![t] =
                          [op |-> "open_r", pc |-> "done", path |-> path,
                           status |-> PostOpenStatus(fstat_ret, isdir), fd |-> fd]]
                   /\ fdtab' = IF PostOpenCloses(fstat_ret, isdir) THEN fdtab
                               ELSE [fdtab EXCEPT ![fd] = OsOpenFd(path, {"O_RDONLY"})]
    /\ UNCHANGED <<platform, disk, plan, others>>

WritableOflagWithoutAppend(write_only, truncate, append) ==
    {"O_CREAT"}
      \cup (IF truncate THEN {"O_TRUNC"} ELSE {})
      \cup (IF write_only THEN {"O_WRONLY"} ELSE {"O_RDWR"})

\* io_util.cc:484-517: the open flags FileOpenWritable passes.
WritableOflag(write_only, truncate, append) ==
    {"O_CREAT"}
      \cup (IF truncate THEN {"O_TRUNC"} ELSE {})
      \cup (IF append THEN {"O_APPEND"} ELSE {})
      \cup (IF write_only THEN {"O_WRONLY"} ELSE {"O_RDWR"})

FileOpenWritableLeavingOpen(t, path, write_only, truncate, append) ==
    /\ Quiet(t)
    /\ LET oflag == WritableOflag(write_only, truncate, append)
           fd == LowestFreeFd
           base == [op |-> "open_w", pc |-> "done", path |-> path, append |-> append]
       IN  \E opened \in {FALSE, OsOpenPossible(path, oflag)} :
             IF ~opened
             THEN /\ call' = [call EXCEPT ![t] =
                         base @@ [status |-> CheckFileOpResult(-1), fd |-> -1]]
                  /\ UNCHANGED <<fdtab, disk>>
             ELSE /\ disk' = OsOpenDisk(path, oflag)
                  /\ IF ~append
                     THEN /\ call' = [call EXCEPT ![t] =
                                 base @@ [status |-> "OK", fd |-> fd]]
                          /\ fdtab' = [fdtab EXCEPT ![fd] = OsOpenFd(path, oflag)]
                     ELSE \* Seek to end, as O_APPEND does not necessarily do it
                          \E ret \in {-1, Len(OsOpenDisk(path, oflag)[path].data)} :
                             IF ret = -1
                             THEN /\ call' = [call EXCEPT ![t] =
                                         base @@ [status |-> "IOError", fd |-> fd]]
                                  /\ fdtab' = [fdtab EXCEPT ![fd] = OsOpenFd(path, oflag)]
                             ELSE /\ call' = [call EXCEPT ![t] =
                                         base @@ [status |-> "OK", fd |-> fd]]
                                  /\ fdtab' = [fdtab EXCEPT ![fd] =
                                         [OsOpenFd(path, oflag) EXCEPT !.pos = ret, !.append = TRUE]]
    /\ UNCHANGED <<platform, plan, others>>

\* io_util.cc:478 FileOpenWritable
FileOpenWritable(t, path, write_only, truncate, append) ==
    /\ Quiet(t)
    /\ LET oflag == WritableOflag(write_only, truncate, append)
           fd == LowestFreeFd
           base == [op |-> "open_w", pc |-> "done", path |-> path, append |-> append]
       IN  \E opened \in {FALSE, OsOpenPossible(path, oflag)} :
             IF ~opened
             THEN /\ call' = [call EXCEPT ![t] =
                         base @@ [status |-> CheckFileOpResult(-1), fd |-> -1]]
                  /\ UNCHANGED <<fdtab, disk>>
             ELSE /\ disk' = OsOpenDisk(path, oflag)
                  /\ IF ~append
                     THEN /\ call' = [call EXCEPT ![t] =
                                 base @@ [status |-> "OK", fd |-> fd]]
                          /\ fdtab' = [fdtab EXCEPT ![fd] = OsOpenFd(path, oflag)]
                     ELSE \* Seek to end, as O_APPEND does not necessarily do it
                          \E ret \in {-1, Len(OsOpenDisk(path, oflag)[path].data)} :
                             IF ret = -1
                             THEN /\ call' = [call EXCEPT ![t] =
                                         base @@ [status |-> "IOError", fd |-> fd]]
                                  /\ fdtab' = fdtab
                             ELSE /\ call' = [call EXCEPT ![t] =
                                         base @@ [status |-> "OK", fd |-> fd]]
                                  /\ fdtab' = [fdtab EXCEPT ![fd] =
                                         [OsOpenFd(path, oflag) EXCEPT !.pos = ret, !.append = TRUE]]
    /\ UNCHANGED <<platform, plan, others>>

\* io_util.cc:534 FileTell
FileTell(t, fd) ==
    /\ Quiet(t)
    /\ fdtab[fd].open
    /\ \E current_pos \in lseek64_compat(fdtab[fd], 0, SEEK_CUR) :
          call' = [call EXCEPT ![t] =
                      [op |-> "tell", pc |-> "done", fd |-> fd,
                       status |-> IF current_pos = -1 THEN "IOError" ELSE "OK",
                       pos |-> IF current_pos = -1 THEN Uninit ELSE current_pos]]
    /\ UNCHANGED <<platform, disk, fdtab, plan, others>>

\* io_util.cc:662 FileSeek
FileSeek(t, fd, pos, whence) ==
    /\ Quiet(t)
    /\ fdtab[fd].open
    /\ \A u \in Threads : Quiet(u) \/ call[u].fd # fd
    /\ \E ret \in lseek64_compat(fdtab[fd], pos, whence) :
          /\ call' = [call EXCEPT ![t] =
                      [op |-> "seek", pc |-> "done", fd |-> fd,
                       status |-> IF ret = -1 THEN "IOError" ELSE "OK"]]
          /\ fdtab' = IF ret = -1 THEN fdtab ELSE [fdtab EXCEPT ![fd].pos = ret]
    /\ UNCHANGED <<platform, disk, plan, others>>

FileGetSizeResultIgnoringTell(fstat_ret, st_size, tell_ret) ==
    IF fstat_ret = -1 THEN [status |-> "IOError", size |-> Uninit]
    ELSE IF st_size < 0 THEN [status |-> "IOError", size |-> Uninit]
    ELSE [status |-> "OK", size |-> st_size]

\* io_util.cc:676-697: what FileGetSize returns, from fstat's result, the
\* st_size it stored and the result of the lseek inside FileTell (used only
\* when st_size is 0).
FileGetSizeResult(fstat_ret, st_size, tell_ret) ==
    IF fstat_ret = -1 THEN [status |-> "IOError", size |-> Uninit]
    ELSE IF st_size = 0 /\ tell_ret = -1 THEN [status |-> "IOError", size |-> Uninit]
    ELSE IF st_size < 0 THEN [status |-> "IOError", size |-> Uninit]
    ELSE [status |-> "OK", size |-> st_size]

\* io_util.cc:670 FileGetSize
FileGetSize(t, fd) ==
    /\ Quiet(t)
    /\ fdtab[fd].open
    /\ \E fstat_ret \in {0, -1}, tell_ret \in lseek64_compat(fdtab[fd], 0, SEEK_CUR) :
          LET st_size == IF fstat_ret = -1 THEN -1 ELSE Len(disk[fdtab[fd].path].data)
              r == FileGetSizeResult(fstat_ret, st_size, tell_ret)
          IN  call' = [call EXCEPT ![t] =
                          [op |-> "getsize", pc |-> "done", fd |-> fd,
                           st_size |-> st_size,
                           tell_ret |-> IF fstat_ret # -1 /\ st_size = 0
                                        THEN tell_ret ELSE 0,
                           status |-> r.status, size |-> r.size]]
    /\ UNCHANGED <<platform, disk, fdtab, plan, others>>

(***************************************************************************)
(* The chunked loops: each sub-read / sub-write is one step                *)
(***************************************************************************)
\* io_util.cc:730, 763, 795: std::min(ARROW_MAX_IO_CHUNKSIZE, nbytes - done)
ChunkSizeUncapped(nbytes, done) == nbytes - done

\* io_util.cc:730-731, 763-764, 795-796: the count one sub-call asks for.
ChunkSize(nbytes, done) == Min(MaxIoChunk, nbytes - done)

\* io_util.cc:729, 762: while (*bytes_read < nbytes)
ReadLoopCond(bytes_read, nbytes) == bytes_read < nbytes

AdvanceBufferNot(boff, ret) == boff

\* io_util.cc:747, 775: buffer += ret
AdvanceBuffer(boff, ret) == boff + ret

\* io_util.cc:751-755, 780-783: the status the read loops return.
ReadStatus(bytes_read) == IF bytes_read = -1 THEN "IOError" ELSE "OK"

AfterSubReadKeepingCount(c, ret, chunk) ==
    IF ret <= 0 THEN [c EXCEPT !.ret = ret, !.pc = "break"]
    ELSE [c EXCEPT !.ret = ret,
                   !.buffer = StoreAt(c.buffer, c.boff, chunk),
                   !.boff = c.boff + ret,
                   !.bytes_read = c.bytes_read + ret]

AfterSubReadEndOfFileAsFailure(c, ret, chunk) ==
    IF ret <= 0 THEN [c EXCEPT !.ret = ret, !.bytes_read = ret, !.pc = "break"]
    ELSE [c EXCEPT !.ret = ret,
                   !.buffer = StoreAt(c.buffer, c.boff, chunk),
                   !.boff = c.boff + ret,
                   !.bytes_read = c.bytes_read + ret]

\* io_util.cc:739-748: the call after one sub-read returned ret, the bytes it
\* delivered being chunk.
AfterSubRead(c, ret, chunk) ==
    IF ret = -1 THEN [c EXCEPT !.ret = ret, !.bytes_read = ret, !.pc = "break"]
    ELSE IF ret = 0 THEN [c EXCEPT !.ret = ret, !.pc = "break"]
    ELSE [c EXCEPT !.ret = ret,
                   !.buffer = StoreAt(c.buffer, c.boff, chunk),
                   !.boff = AdvanceBuffer(c.boff, ret),
                   !.bytes_read = c.bytes_read + ret]

ReadCall(op, fd, position, nbytes) ==
    [op |-> op, pc |-> "loop", status |-> "OK", fd |-> fd, nbytes |-> nbytes,
     bytes_read |-> 0, position |-> position, position0 |-> position,
     buffer |-> [i \in 1 .. nbytes |-> Uninit], boff |-> 0, ret |-> 0,
     chunksize |-> 0]

\* io_util.cc:726-727 FileRead, entry
FileReadBegin(t, fd, nbytes) ==
    /\ Quiet(t)
    /\ fdtab[fd].open
    /\ call' = [call EXCEPT ![t] = ReadCall("read", fd, fdtab[fd].pos, nbytes)]
    /\ UNCHANGED <<platform, disk, fdtab, plan, others>>

\* io_util.cc:729-749 FileRead, one iteration of the loop
FileReadStep(t) ==
    LET c == call[t]
        f == fdtab[c.fd]
    IN  /\ c.op = "read" /\ c.pc = "loop"
        /\ ReadLoopCond(c.bytes_read, c.nbytes)
        /\ \E ret \in OsReadResults(f, f.pos, ChunkSize(c.nbytes, c.bytes_read)) :
              /\ call' = [call EXCEPT ![t] =
                     [AfterSubRead(c, ret, BytesAt(disk[f.path].data, f.pos, ret))
                         EXCEPT !.chunksize = ChunkSize(c.nbytes, c.bytes_read)]]
              /\ fdtab' = IF ret > 0 THEN [fdtab EXCEPT ![c.fd].pos = f.pos + ret]
                          ELSE fdtab
        /\ UNCHANGED <<platform, disk, plan, others>>

\* io_util.cc:751-755 FileRead, after the loop
FileReadReturn(t) ==
    LET c == call[t]
    IN  /\ c.op = "read"
        /\ c.pc = "break" \/ (c.pc = "loop" /\ ~ReadLoopCond(c.bytes_read, c.nbytes))
        /\ call' = [call EXCEPT ![t] =
               [c EXCEPT !.pc = "done", !.status = ReadStatus(c.bytes_read)]]
        /\ UNCHANGED <<platform, disk, fdtab, plan, others>>

PreadCursorAtEndOfRead(f, pos, ret) == IF ret > 0 THEN {pos + ret} ELSE {f.pos}

\* io_util.cc:704 pread_compat: where the descriptor's cursor can be after a
\* positioned read of ret bytes at pos. pread leaves it alone; on Windows
\* "ReadFile() will update the file position".
PreadCursor(f, pos, ret) ==
    IF platform = "win32"
    THEN IF ret > 0 THEN {pos + ret} ELSE {f.pos, pos}
    ELSE {f.pos}

\* io_util.cc:758-760 FileReadAt, entry
FileReadAtBegin(t, fd, position, nbytes) ==
    /\ Quiet(t)
    /\ fdtab[fd].open
    /\ call' = [call EXCEPT ![t] = ReadCall("readat", fd, position, nbytes)]
    /\ UNCHANGED <<platform, disk, fdtab, plan, others>>

\* io_util.cc:762-778 FileReadAt, one iteration of the loop
FileReadAtStep(t) ==
    LET c == call[t]
        f == fdtab[c.fd]
    IN  /\ c.op = "readat" /\ c.pc = "loop"
        /\ ReadLoopCond(c.bytes_read, c.nbytes)
        /\ \E ret \in OsReadResults(f, c.position, ChunkSize(c.nbytes, c.bytes_read)) :
              /\ call' = [call EXCEPT ![t] =
                     [AfterSubRead(c, ret, BytesAt(disk[f.path].data, c.position, ret))
                         EXCEPT !.position = IF ret > 0 THEN c.position + ret
                                             ELSE c.position,
                                !.chunksize = ChunkSize(c.nbytes, c.bytes_read)]]
              /\ \E cur \in PreadCursor(f, c.position, ret) :
                     fdtab' = [fdtab EXCEPT ![c.fd].pos = cur]
        /\ UNCHANGED <<platform, disk, plan, others>>

\* io_util.cc:780-783 FileReadAt, after the loop
FileReadAtReturn(t) ==
    LET c == call[t]
    IN  /\ c.op = "readat"
        /\ c.pc = "break" \/ (c.pc = "loop" /\ ~ReadLoopCond(c.bytes_read, c.nbytes))
        /\ call' = [call EXCEPT ![t] =
               [c EXCEPT !.pc = "done", !.status = ReadStatus(c.bytes_read)]]
        /\ UNCHANGED <<platform, disk, fdtab, plan, others>>

WriteLoopCondIgnoringFailure(ret, bytes_written, nbytes) == bytes_written < nbytes

\* io_util.cc:794: while (ret != -1 && bytes_written < nbytes)
WriteLoopCond(ret, bytes_written, nbytes) == ret # -1 /\ bytes_written < nbytes

\* io_util.cc:810-813: the status FileWrite returns.
WriteStatus(ret) == IF ret = -1 THEN "IOError" ELSE "OK"

\* The file can take nbytes more from descriptor fd within MaxFileLen.
WriteFits(fd, nbytes) ==
    OsWriteOffset(fdtab[fd]) + nbytes <= MaxFileLen

\* io_util.cc:790-792 FileWrite, entry. data0 and pos0 record the file and
\* the cursor as the call found them; failed, that a sub-write failed;
\* parity, whether the number of sub-writes so far is odd.
FileWriteBegin(t, fd, buffer) ==
    /\ Quiet(t)
    /\ fdtab[fd].open
    /\ WriteFits(fd, Len(buffer))
    /\ call' = [call EXCEPT ![t] =
           [op |-> "write", pc |-> "loop", status |-> "OK", fd |-> fd,
            nbytes |-> Len(buffer), buffer |-> buffer, bytes_written |-> 0,
            ret |-> 0, failed |-> FALSE, chunksize |-> 0, parity |-> 0,
            data0 |-> disk[fdtab[fd].path].data, pos0 |-> fdtab[fd].pos]]
    /\ UNCHANGED <<platform, disk, fdtab, plan, others>>

\* io_util.cc:794-808 FileWrite, one iteration of the loop
FileWriteStep(t) ==
    LET c == call[t]
        f == fdtab[c.fd]
        off == OsWriteOffset(f)
    IN  /\ c.op = "write" /\ c.pc = "loop"
        /\ WriteLoopCond(c.ret, c.bytes_written, c.nbytes)
        /\ \E ret \in OsWriteResults(f, ChunkSize(c.nbytes, c.bytes_written)) :
              LET chunk == SubSeq(c.buffer, c.bytes_written + 1, c.bytes_written + ret)
              IN  IF ret = -1
                  THEN /\ call' = [call EXCEPT ![t] =
                              [c EXCEPT !.ret = ret, !.failed = TRUE,
                                        !.parity = 1 - c.parity,
                                        !.chunksize = ChunkSize(c.nbytes, c.bytes_written)]]
                       /\ UNCHANGED <<disk, fdtab>>
                  ELSE /\ call' = [call EXCEPT ![t] =
                              [c EXCEPT !.ret = ret,
                                        !.bytes_written = c.bytes_written + ret,
                                        !.parity = 1 - c.parity,
                                        !.chunksize = ChunkSize(c.nbytes, c.bytes_written)]]
                       /\ disk' = IF ret = 0 THEN disk
                                  ELSE [disk EXCEPT ![f.path].data =
                                           OverlayAt(disk[f.path].data, off, chunk)]
                       /\ fdtab' = IF ret = 0 THEN fdtab
                                   ELSE [fdtab EXCEPT ![c.fd].pos = off + ret]
        /\ UNCHANGED <<platform, plan, others>>

\* io_util.cc:810-813 FileWrite, after the loop
FileWriteReturn(t) ==
    LET c == call[t]
    IN  /\ c.op = "write" /\ c.pc = "loop"
        /\ ~WriteLoopCond(c.ret, c.bytes_written, c.nbytes)
        /\ call' = [call EXCEPT ![t] =
               [c EXCEPT !.pc = "done", !.status = WriteStatus(c.ret)]]
        /\ UNCHANGED <<platform, disk, fdtab, plan, others>>

(***************************************************************************)
(* MemoryMapRemap. A mapping is [addr, size]; it shows the bytes of the    *)
(* file (MAP_SHARED). A call is one step; F is the set of its system calls *)
(* that fail if they are reached, a the address a new mapping would get.   *)
(***************************************************************************)
MAP_FAILED == -1
NULL == 0
Addrs == {1, 2}

\* ftruncate / SetEndOfFile: data cut or zero-extended to n bytes.
Resize(data, n) == [i \in 1 .. n |-> IF i <= Len(data) THEN data[i] ELSE 0]

RemapSteps(plat) ==
    CASE plat = "linux" -> {"ftruncate", "mremap"}
      [] plat = "apple" -> {"munmap", "ftruncate", "mmap"}
      [] plat = "win32" -> {"UnmapViewOfFile", "_get_osfhandle", "SetFilePointer",
                            "SetEndOfFile", "CreateFileMapping", "MapViewOfFile"}

RemapEnd(status, new_addr, m, data, pos, failed) ==
    [status |-> status, new_addr |-> new_addr, maps |-> m, data |-> data,
     pos |-> pos, failed |-> failed]

RemapAppleTruncatesFirst(old, new_size, data, pos, F, a) ==
    IF "ftruncate" \in F
    THEN RemapEnd("IOError", MAP_FAILED, {old}, data, pos, {"ftruncate"})
    ELSE IF "munmap" \in F
    THEN RemapEnd("IOError", MAP_FAILED, {old}, Resize(data, new_size), pos, {"munmap"})
    ELSE IF "mmap" \in F
    THEN RemapEnd("IOError", MAP_FAILED, {}, Resize(data, new_size), pos, {"mmap"})
    ELSE RemapEnd("OK", a, {[addr |-> a, size |-> new_size]},
                  Resize(data, new_size), pos, {})

\* io_util.cc:610-625, the __APPLE__ branch: munmap, ftruncate, mmap.
RemapApple(old, new_size, data, pos, F, a) ==
    IF "munmap" \in F
    THEN RemapEnd("IOError", MAP_FAILED, {old}, data, pos, {"munmap"})
    ELSE IF "ftruncate" \in F
    THEN RemapEnd("IOError", MAP_FAILED, {}, data, pos, {"ftruncate"})
    ELSE IF "mmap" \in F
    THEN RemapEnd("IOError", MAP_FAILED, {}, Resize(data, new_size), pos, {"mmap"})
    ELSE RemapEnd("OK", a, {[addr |-> a, size |-> new_size]},
                  Resize(data, new_size), pos, {})

\* io_util.cc:627-634, the branch with mremap: ftruncate, then mremap, which
\* leaves the old mapping as it was when it fails.
RemapLinux(old, new_size, data, pos, F, a) ==
    IF "ftruncate" \in F
    THEN RemapEnd("IOError", MAP_FAILED, {old}, data, pos, {"ftruncate"})
    ELSE IF "mremap" \in F
    THEN RemapEnd("IOError", MAP_FAILED, {old}, Resize(data, new_size), pos, {"mremap"})
    ELSE RemapEnd("OK", a, {[addr |-> a, size |-> new_size]},
                  Resize(data, new_size), pos, {})

\* io_util.cc:580-608, the _WIN32 branch. The results of SetFilePointer and
\* SetEndOfFile are not looked at: SetEndOfFile cuts or extends the file at
\* the file pointer, wherever SetFilePointer left it. The view is mapped
\* from a mapping object of the file's size, so it cannot be larger. The
\* test after MapViewOfFile reads new_addr, not *new_addr, and never fires.
RemapWin32(old, new_size, data, pos, F, a) ==
    IF "UnmapViewOfFile" \in F
    THEN RemapEnd("IOError", MAP_FAILED, {old}, data, pos, {"UnmapViewOfFile"})
    ELSE IF "_get_osfhandle" \in F
    THEN RemapEnd("IOError", MAP_FAILED, {}, data, pos, {"_get_osfhandle"})
    ELSE LET p == IF "SetFilePointer" \in F THEN pos ELSE new_size
             d == IF "SetEndOfFile" \in F THEN data ELSE Resize(data, p)
             silent == F \cap {"SetFilePointer", "SetEndOfFile"}
         IN  IF "CreateFileMapping" \in F \/ Len(d) = 0
             THEN RemapEnd("IOError", MAP_FAILED, {}, d, p,
                           silent \cup {"CreateFileMapping"})
             ELSE IF "MapViewOfFile" \in F \/ new_size > Len(d)
             THEN RemapEnd("OK", NULL, {}, d, p, silent \cup {"MapViewOfFile"})
             ELSE RemapEnd("OK", a, {[addr |-> a, size |-> new_size]}, d, p, silent)

\* io_util.cc:576 MemoryMapRemap
MemoryMapRemap(fildes) ==
    /\ fdtab[fildes].open
    /\ \E old \in maps, new_size \in 1 .. MaxFileLen,
          F \in SUBSET RemapSteps(platform), a \in Addrs :
          LET f == fdtab[fildes]
              data == disk[f.path].data
              r == CASE platform = "linux" -> RemapLinux(old, new_size, data, f.pos, F, a)
                     [] platform = "apple" -> RemapApple(old, new_size, data, f.pos, F, a)
                     [] platform = "win32" -> RemapWin32(old, new_size, data, f.pos, F, a)
          IN  /\ maps' = r.maps
              /\ disk' = [disk EXCEPT ![f.path].data = r.data]
              /\ fdtab' = [fdtab EXCEPT ![fildes].pos = r.pos]
              /\ remap' = [status |-> r.status, new_addr |-> r.new_addr,
                           failed |-> r.failed, old |-> old, new_size |-> new_size,
                           data0 |-> data]
    /\ UNCHANGED <<platform, call, plan, tmpVars, procVars>>

\* The caller stores a byte through a mapping it holds.
MapStore(fildes) ==
    /\ fdtab[fildes].open
    /\ \E m \in maps, b \in Byte :
          \E off \in 0 .. Min(m.size, Len(disk[fdtab[fildes].path].data)) - 1 :
             disk' = [disk EXCEPT ![fdtab[fildes].path].data[off + 1] = b]
    /\ remap' = NoRemap
    /\ UNCHANGED <<platform, fdtab, call, plan, maps, tmpVars, procVars>>

(***************************************************************************)
(* Directories. The nodes are the paths under the system's temporary       *)
(* directory: <<s>> is the directory TemporaryDir::Make names with the     *)
(* random suffix s, below it come the entries the program makes.           *)
(***************************************************************************)
\* Stand for the 36^8 names MakeRandomName(8) can return.
Suffixes == {"s1", "s2"}
Tops == {<<s>> : s \in Suffixes}
Kids == {<<s, c>> : s \in Suffixes, c \in {"x", "y"}}
Grandkids == {<<s, "x", "z">> : s \in Suffixes}
Nodes == Tops \cup Kids \cup Grandkids

Parent(n) == SubSeq(n, 1, Len(n) - 1)
IsPrefix(p, n) == Len(p) <= Len(n) /\ SubSeq(n, 1, Len(p)) = p
\* The nodes at and below p.
Under(p) == {n \in Nodes : IsPrefix(p, n)}
Below(p) == Under(p) \ {p}
KindOf(tree, n) == IF n = <<>> THEN "dir" ELSE tree[n]

Removed(tree, S) == [n \in Nodes |-> IF n \in S THEN "none" ELSE tree[n]]

\* What bfs::remove_all(p) can leave when it throws: it has removed some
\* entries below p, each with all that was below it, and not p itself.
PartlyRemoved(tree, p) ==
    {Removed(tree, S) : S \in {T \in SUBSET Below(p) :
                                  \A n \in T : Under(n) \subseteq T}}

NoLast == [op |-> "none"]
ObjIds == {1, 2}
Unborn == [state |-> "unborn", path |-> <<>>, deletions |-> 0, warned |-> FALSE]

NoDirectories ==
    /\ fs = [n \in Nodes |-> "none"]
    /\ objs = [o \in ObjIds |-> Unborn]
    /\ last = NoLast

CreateDirResultAdopting(tree, path, fails) ==
    IF fails \/ tree[path] \notin {"none", "dir"} \/ KindOf(tree, Parent(path)) # "dir"
    THEN [status |-> "IOError", created |-> FALSE, fs |-> tree, oserror |-> fails]
    ELSE [status |-> "OK", created |-> TRUE, oserror |-> FALSE,
          fs |-> [tree EXCEPT ![path] = "dir"]]

CreateDirResultRecreating(tree, path, fails) ==
    IF fails \/ tree[path] \notin {"none", "dir"} \/ KindOf(tree, Parent(path)) # "dir"
    THEN [status |-> "IOError", created |-> FALSE, fs |-> tree, oserror |-> fails]
    ELSE [status |-> "OK", created |-> TRUE, oserror |-> FALSE,
          fs |-> Removed([tree EXCEPT ![path] = "dir"], Below(path))]

\* io_util.cc:319 CreateDir: [status, created, fs]. bfs::create_directory
\* returns false for a directory that is there, and throws when the path is
\* taken by something else, when the parent is no directory, or when the
\* system call fails (fails). oserror tells that it was the system call
\* that failed, for a path that could have been made.
CreateDirResult(tree, path, fails) ==
    IF tree[path] = "dir"
    THEN [status |-> "OK", created |-> FALSE, fs |-> tree, oserror |-> FALSE]
    ELSE IF fails \/ tree[path] # "none" \/ KindOf(tree, Parent(path)) # "dir"
    THEN [status |-> "IOError", created |-> FALSE, fs |-> tree,
          oserror |-> tree[path] = "none" /\ KindOf(tree, Parent(path)) = "dir"]
    ELSE [status |-> "OK", created |-> TRUE, fs |-> [tree EXCEPT ![path] = "dir"],
          oserror |-> FALSE]

\* Whether anything is below path in tree.
NonEmpty(tree, path) == \E n \in Below(path) : tree[n] # "none"

\* What a directory operation leaves in last: the call, what it returned,
\* and what the path was (was, nonempty) when it was called.
Outcome(op, path, r) ==
    [op |-> op, path |-> path, status |-> r.status, oserror |-> r.oserror,
     was |-> fs[path], nonempty |-> NonEmpty(fs, path)]

CreateDir(path) ==
    /\ \E fails \in BOOLEAN :
          LET r == CreateDirResult(fs, path, fails)
          IN  /\ fs' = r.fs
              /\ last' = Outcome("CreateDir", path, r) @@ [created |-> r.created]
    /\ UNCHANGED <<platform, disk, fdtab, call, plan, maps, remap, objs, procVars>>

\* The program makes a file in a directory (FileOpenWritable's O_CREAT).
PutFile(path) ==
    /\ fs[path] = "none" /\ KindOf(fs, Parent(path)) = "dir"
    /\ fs' = [fs EXCEPT ![path] = "file"]
    /\ last' = [op |-> "PutFile", path |-> path, status |-> "OK"]
    /\ UNCHANGED <<platform, disk, fdtab, call, plan, maps, remap, objs, procVars>>

\* Something else makes a symbolic link in a directory; symlink_status
\* reports it as a symlink, whatever it points to.
PutLink(path) ==
    /\ fs[path] = "none" /\ KindOf(fs, Parent(path)) = "dir"
    /\ fs' = [fs EXCEPT ![path] = "link"]
    /\ last' = [op |-> "PutLink", path |-> path, status |-> "OK"]
    /\ UNCHANGED <<platform, disk, fdtab, call, plan, maps, remap, objs, procVars>>

DeleteDirTreeResultsKeepingDirectory(tree, path) ==
    {[status |-> "OK", deleted |-> Below(path) # {}, oserror |-> FALSE,
      fs |-> Removed(tree, Below(path))]}

DeleteDirTreeResultsOfAnyKind(tree, path) ==
    {[status |-> "OK", deleted |-> tree[path] # "none", oserror |-> FALSE,
      fs |-> Removed(tree, Under(path))]}

\* io_util.cc:341 DeleteDirTree: the results [status, deleted, fs] it can
\* have. symlink_status or remove_all may throw, which is an IOError.
DeleteDirTreeResults(tree, path) ==
    IF tree[path] \notin {"none", "dir"}
    THEN {[status |-> "IOError", deleted |-> FALSE, fs |-> tree, oserror |-> FALSE]}
    ELSE {[status |-> "OK", deleted |-> tree[path] # "none", oserror |-> FALSE,
           fs |-> Removed(tree, Under(path))]}
         \cup {[status |-> "IOError", deleted |-> FALSE, fs |-> t, oserror |-> TRUE] :
                  t \in IF tree[path] = "none" THEN {tree} ELSE PartlyRemoved(tree, path)}

DeleteDirTree(path) ==
    /\ \E r \in DeleteDirTreeResults(fs, path) :
          /\ fs' = r.fs
          /\ last' = Outcome("DeleteDirTree", path, r) @@ [deleted |-> r.deleted]
    /\ UNCHANGED <<platform, disk, fdtab, call, plan, maps, remap, objs, procVars>>

DeleteDirContentsResultsWithDirectory(tree, path) ==
    IF tree[path] = "none"
    THEN {[status |-> "OK", deleted |-> FALSE, fs |-> tree, oserror |-> FALSE]}
    ELSE {[status |-> "OK", deleted |-> TRUE, oserror |-> FALSE,
           fs |-> Removed(tree, Under(path))]}

\* io_util.cc:357 DeleteDirContents: the results [status, deleted, fs] it
\* can have. remove_all is called on each child in turn; when a call throws
\* the children before it are gone.
DeleteDirContentsResults(tree, path) ==
    {[status |-> "IOError", deleted |-> FALSE, fs |-> t, oserror |-> TRUE] :
        t \in IF tree[path] = "dir" THEN PartlyRemoved(tree, path) ELSE {tree}}
    \cup
    (IF tree[path] = "none"
     THEN {[status |-> "OK", deleted |-> FALSE, fs |-> tree, oserror |-> FALSE]}
     ELSE IF tree[path] # "dir"
     THEN {[status |-> "IOError", deleted |-> FALSE, fs |-> tree, oserror |-> FALSE]}
     ELSE {[status |-> "OK", deleted |-> TRUE, oserror |-> FALSE,
            fs |-> Removed(tree, Below(path))]})

DeleteDirContents(path) ==
    /\ \E r \in DeleteDirContentsResults(fs, path) :
          /\ fs' = r.fs
          /\ last' = Outcome("DeleteDirContents", path, r) @@ [deleted |-> r.deleted]
    /\ UNCHANGED <<platform, disk, fdtab, call, plan, maps, remap, objs, procVars>>

DeleteFileResultsOfAnyKind(tree, path) ==
    {[status |-> "OK", deleted |-> tree[path] # "none", oserror |-> FALSE,
      fs |-> Removed(tree, Under(path))]}

\* io_util.cc:383 DeleteFile: the results [status, deleted, fs] it can have.
\* bfs::remove returns false for a path that is not there.
DeleteFileResults(tree, path) ==
    {[status |-> "IOError", deleted |-> FALSE, fs |-> tree, oserror |-> TRUE]}
    \cup
    (IF tree[path] = "dir"
     THEN {[status |-> "IOError", deleted |-> FALSE, fs |-> tree, oserror |-> FALSE]}
     ELSE {[status |-> "OK", deleted |-> tree[path] # "none", oserror |-> FALSE,
            fs |-> Removed(tree, {path})]})

DeleteFile(path) ==
    /\ \E r \in DeleteFileResults(fs, path) :
          /\ fs' = r.fs
          /\ last' = Outcome("DeleteFile", path, r) @@ [deleted |-> r.deleted]
    /\ UNCHANGED <<platform, disk, fdtab, call, plan, maps, remap, objs, procVars>>


\* io_util.cc:912 TemporaryDir::Make: one name, one CreateDir, an object
\* only for a directory that was made.
TemporaryDirMake(o) ==
    /\ objs[o].state = "unborn"
    /\ \A q \in ObjIds : q < o => objs[q].state # "unborn"
    /\ \E suffix \in Suffixes, fails \in BOOLEAN :
          LET r == CreateDirResult(fs, <<suffix>>, fails)
              ok == r.status = "OK" /\ r.created
          IN  /\ fs' = r.fs
              /\ objs' = IF ok THEN [objs EXCEPT ![o] =
                                       [Unborn EXCEPT !.state = "live",
                                                      !.path = <<suffix>>]]
                         ELSE objs
              /\ last' = [op |-> "Make", path |-> <<suffix>>,
                          status |-> IF ok THEN "OK" ELSE "IOError"]
    /\ UNCHANGED <<platform, disk, fdtab, call, plan, maps, remap, procVars>>

\* io_util.cc:905 TemporaryDir::~TemporaryDir: DeleteDirTree(path_), and a
\* warning in the log if it failed. Nothing is returned or thrown.
TemporaryDirDestroy(o) ==
    /\ objs[o].state = "live"
    /\ \E r \in DeleteDirTreeResults(fs, objs[o].path) :
          /\ fs' = r.fs
          /\ objs' = [objs EXCEPT ![o].state = "destroyed",
                                  ![o].deletions = objs[o].deletions + 1,
                                  ![o].warned = r.status # "OK"]
          /\ last' = [op |-> "Destroy", obj |-> o, path |-> objs[o].path,
                      status |-> r.status]
    /\ UNCHANGED <<platform, disk, fdtab, call, plan, maps, remap, procVars>>

(***************************************************************************)
(* File names: PlatformFilename::FromString and ToString. A text is a      *)
(* sequence of bytes; the native form is the same bytes on POSIX and a     *)
(* sequence of wide characters on Windows.                                 *)
(***************************************************************************)
\* What the operations on names, signals, the environment and the console
\* leave alone.
elsewhere == <<platform, disk, fdtab, plan, maps, remap, tmpVars, jdbc>>

\* The bytes of a text: "xFF" is a byte that is no part of any UTF-8 text.
Chars == {"a", "/", "\\", "NUL", "xFF"}

\* arrow/util/utf8.h UTF8ToWideString: [status, ws]. Text that is not UTF-8
\* is refused.
UTF8ToWideString(s) ==
    IF \E i \in 1 .. Len(s) : s[i] = "xFF"
    THEN [status |-> "Invalid", ws |-> <<>>]
    ELSE [status |-> "OK", ws |-> [i \in 1 .. Len(s) |-> [w |-> s[i]]]]

\* arrow/util/utf8.h WideStringToUTF8
WideStringToUTF8(ws) == [status |-> "OK", s |-> [i \in 1 .. Len(ws) |-> ws[i].w]]

\* io_util.cc:185 StringToNative: [status, ns]
StringToNative(plat, s) ==
    IF plat = "win32"
    THEN LET r == UTF8ToWideString(s) IN [status |-> r.status, ns |-> r.ws]
    ELSE [status |-> "OK", ns |-> s]

\* bfs::path::make_preferred, in the constructor of PlatformFilename::Impl:
\* on Windows every slash becomes a backslash.
make_preferred(plat, ns) ==
    IF plat = "win32"
    THEN [i \in 1 .. Len(ns) |-> IF ns[i].w = "/" THEN [w |-> "\\"] ELSE ns[i]]
    ELSE ns

\* bfs::path::generic_string / generic_wstring: on Windows every backslash
\* becomes a slash.
generic_string(plat, path) ==
    IF plat = "win32"
    THEN [i \in 1 .. Len(path) |-> IF path[i].w = "\\" THEN [w |-> "/"] ELSE path[i]]
    ELSE path

\* io_util.cc:284 PlatformFilename::ToString
PlatformFilename_ToString(plat, path) ==
    IF plat = "win32"
    THEN LET r == WideStringToUTF8(generic_string(plat, path))
         IN  IF r.status # "OK" THEN <<"<Unrepresentable filename>">> ELSE r.s
    ELSE generic_string(plat, path)

HasNulNever(s) == FALSE

\* io_util.cc:301 file_name.find_first_of('\0') != std::string::npos
HasNul(s) == \E i \in 1 .. Len(s) : s[i] = "NUL"

\* io_util.cc:300 PlatformFilename::FromString: [status, out]
FromStringResult(plat, file_name) ==
    IF HasNul(file_name)
    THEN [status |-> "Invalid", out |-> [made |-> FALSE, path |-> <<>>]]
    ELSE LET r == StringToNative(plat, file_name)
         IN  IF r.status # "OK"
             THEN [status |-> r.status, out |-> [made |-> FALSE, path |-> <<>>]]
             ELSE [status |-> "OK",
                   out |-> [made |-> TRUE, path |-> make_preferred(plat, r.ns)]]

\* names before any call: no text given, no PlatformFilename made, ToString
\* not called (told).
NoName == [text |-> <<>>, status |-> "none", out |-> [made |-> FALSE, path |-> <<>>], shown |-> <<>>,
           told |-> FALSE]

FromString(file_name) ==
    /\ LET r == FromStringResult(platform, file_name)
       IN  names' = [NoName EXCEPT !.text = file_name, !.status = r.status,
                                   !.out = r.out]
    /\ UNCHANGED <<elsewhere, call, sigs, recent, environ, console>>

ToStringCall ==
    /\ names.out.made /\ ~names.told
    /\ names' = [names EXCEPT !.shown = PlatformFilename_ToString(platform, names.out.path),
                              !.told = TRUE]
    /\ UNCHANGED <<elsewhere, call, sigs, recent, environ, console>>

(***************************************************************************)
(* Signal dispositions: process-wide state, read and written by            *)
(* GetSignalHandler and SetSignalHandler with sigaction where the build    *)
(* has it and with signal where it has not.                                *)
(***************************************************************************)
\* SIGBAD stands for a signal number the system refuses.
SignalNumbers == {"SIGINT", "SIGTERM", "SIGBAD"}

\* io_util.h ARROW_HAVE_SIGACTION
ARROW_HAVE_SIGACTION == platform # "win32"

signalOnlyOverDefault(d, signum, handler) ==
    [ret |-> d[signum],
     sigs |-> IF d[signum] = "SIG_DFL" THEN [d EXCEPT ![signum] = handler] ELSE d]

\* signal(signum, handler): [ret, sigs]; ret is the disposition replaced.
signal(d, signum, handler) ==
    IF signum # "SIGBAD"
    THEN [ret |-> d[signum], sigs |-> [d EXCEPT ![signum] = handler]]
    ELSE [ret |-> "SIG_ERR", sigs |-> d]

\* sigaction(signum, act, oldact): [ret, old, sigs]; act = "nullptr" only
\* reads.
sigaction(d, signum, act) ==
    IF signum # "SIGBAD"
    THEN [ret |-> 0, old |-> d[signum],
          sigs |-> IF act = "nullptr" THEN d ELSE [d EXCEPT ![signum] = act]]
    ELSE [ret |-> -1, old |-> "SIG_ERR", sigs |-> d]

\* io_util.cc:962 GetSignalHandler, up to its first system call.
GetSignalHandler(t, signum) ==
    /\ Quiet(t)
    /\ LET base == [op |-> "sig_get", signum |-> signum, fd |-> -1,
                    before |-> sigs[signum]]
       IN  IF ARROW_HAVE_SIGACTION
           THEN LET r == sigaction(sigs, signum, "nullptr")
                IN  /\ sigs' = r.sigs
                    /\ call' = [call EXCEPT ![t] = base @@
                          [pc |-> "done", cb |-> r.old,
                           status |-> IF r.ret # 0 THEN "IOError" ELSE "OK"]]
           ELSE LET r == signal(sigs, signum, "SIG_IGN")
                IN  /\ sigs' = r.sigs
                    /\ call' = [call EXCEPT ![t] = base @@
                          [cb |-> r.ret,
                           pc |-> IF r.ret = "SIG_ERR" THEN "done" ELSE "restore",
                           status |-> IF r.ret = "SIG_ERR" THEN "IOError" ELSE "OK"]]
    /\ UNCHANGED <<elsewhere, recent, environ, console, names>>

GetSignalHandlerWithoutRestore(t) ==
    /\ call[t].op = "sig_get" /\ call[t].pc = "restore"
    /\ call' = [call EXCEPT ![t].pc = "done"]
    /\ UNCHANGED <<elsewhere, sigs, recent, environ, console, names>>

\* io_util.cc:972-977 GetSignalHandler without sigaction: the second call of
\* signal puts back what the first one replaced.
GetSignalHandlerRestore(t) ==
    LET c == call[t]
        r == signal(sigs, c.signum, c.cb)
    IN  /\ c.op = "sig_get" /\ c.pc = "restore"
        /\ sigs' = r.sigs
        /\ call' = [call EXCEPT ![t] =
               [c EXCEPT !.pc = "done",
                         !.status = IF r.ret = "SIG_ERR" THEN "IOError" ELSE "OK"]]
        /\ UNCHANGED <<elsewhere, recent, environ, console, names>>

\* io_util.cc:983 SetSignalHandler: one call of sigaction or signal, which
\* installs the handler and hands back what it replaced.
SetSignalHandler(t, signum, handler) ==
    /\ Quiet(t)
    /\ LET h == handler
           ret == IF ARROW_HAVE_SIGACTION
                  THEN sigaction(sigs, signum, h).ret
                  ELSE IF signal(sigs, signum, h).ret = "SIG_ERR" THEN -1 ELSE 0
           new == IF ARROW_HAVE_SIGACTION
                  THEN sigaction(sigs, signum, h).sigs
                  ELSE signal(sigs, signum, h).sigs
           old == IF ARROW_HAVE_SIGACTION
                  THEN sigaction(sigs, signum, h).old
                  ELSE signal(sigs, signum, h).ret
       IN  /\ sigs' = new
           /\ recent' = IF ret = 0 THEN [recent EXCEPT ![signum] = handler] ELSE recent
           /\ call' = [call EXCEPT ![t] =
                  [op |-> "sig_set", pc |-> "done", fd |-> -1, signum |-> signum,
                   handler |-> handler, old_handler |-> old,
                   status |-> IF ret # 0 THEN "IOError" ELSE "OK"]]
    /\ UNCHANGED <<elsewhere, environ, console, names>>

(***************************************************************************)
(* The environment: GetEnvVar, SetEnvVar, DelEnvVar.                       *)
(***************************************************************************)
Unset == <<-1>>
EnvNames == {"A", "B"}

\* GetEnvironmentVariableA(name, c_str, bufsize): the length of the value
\* if it fits in the buffer with its terminator, the size it needs if it
\* does not, and 0 for a name that has no value.
GetEnvironmentVariableA(env, name, size) ==
    IF env[name] = Unset THEN 0
    ELSE IF Len(env[name]) + 1 <= size THEN Len(env[name])
    ELSE Len(env[name]) + 1

\* io_util.cc:837 GetEnvVar: [status, out]
GetEnvVarResult(plat, env, name) ==
    IF plat = "win32"
    THEN LET res == GetEnvironmentVariableA(env, name, bufsize)
         IN  IF res >= bufsize THEN [status |-> "CapacityError", out |-> Unset]
             ELSE IF res = 0 THEN [status |-> "KeyError", out |-> Unset]
             ELSE [status |-> "OK", out |-> env[name]]
    ELSE IF env[name] = Unset
         THEN [status |-> "KeyError", out |-> Unset]
         ELSE [status |-> "OK", out |-> env[name]]

GetEnvVar(t, name) ==
    /\ Quiet(t)
    /\ LET r == GetEnvVarResult(platform, environ, name)
       IN  call' = [call EXCEPT ![t] =
              [op |-> "getenv", pc |-> "done", fd |-> -1, name |-> name,
               status |-> r.status, out |-> r.out]]
    /\ UNCHANGED <<elsewhere, sigs, recent, environ, console, names>>

\* io_util.cc:865 SetEnvVar: setenv(name, value, 1) or
\* SetEnvironmentVariableA(name, value), which may fail.
SetEnvVar(t, name, value) ==
    /\ Quiet(t)
    /\ \E ok \in BOOLEAN :
          /\ environ' = IF ok THEN [environ EXCEPT ![name] = value] ELSE environ
          /\ call' = [call EXCEPT ![t] =
                 [op |-> "setenv", pc |-> "done", fd |-> -1, name |-> name,
                  value |-> value, status |-> IF ok THEN "OK" ELSE "Invalid"]]
    /\ UNCHANGED <<elsewhere, sigs, recent, console, names>>

\* io_util.cc:885 DelEnvVar: unsetenv(name) or
\* SetEnvironmentVariableA(name, nullptr), which may fail.
DelEnvVar(t, name) ==
    /\ Quiet(t)
    /\ \E ok \in BOOLEAN :
          /\ environ' = IF ok THEN [environ EXCEPT ![name] = Unset] ELSE environ
          /\ call' = [call EXCEPT ![t] =
                 [op |-> "delenv", pc |-> "done", fd |-> -1, name |-> name,
                  status |-> IF ok THEN "OK" ELSE "Invalid"]]
    /\ UNCHANGED <<elsewhere, sigs, recent, console, names>>

(***************************************************************************)
(* Console streams: StdoutStream, StderrStream, StdinStream. Each keeps a  *)
(* position pos_; std::cin keeps its state and the input still to come.    *)
(***************************************************************************)

\* io_util.cc:108 / 130 / 152 Tell
ConsoleTell(t, stream) ==
    /\ Quiet(t)
    /\ call' = [call EXCEPT ![t] =
           [op |-> "con_tell", pc |-> "done", fd |-> -1, stream |-> stream,
            status |-> "OK", position |-> console[stream]]]
    /\ UNCHANGED <<elsewhere, sigs, recent, environ, console, names>>

\* io_util.cc:113 StdoutStream::Write and 135 StderrStream::Write
ConsoleWrite(t, stream, nbytes) ==
    /\ Quiet(t)
    /\ console[stream] + nbytes <= MaxPos
    /\ console' = [console EXCEPT ![stream] = @ + nbytes]
    /\ call' = [call EXCEPT ![t] =
           [op |-> "con_write", pc |-> "done", fd |-> -1, stream |-> stream,
            status |-> "OK", nbytes |-> nbytes]]
    /\ UNCHANGED <<elsewhere, sigs, recent, environ, names>>

\* std::cin.read(out, nbytes): the state of std::cin after it. A stream that
\* is not good delivers nothing and stays as it is; a good one delivers
\* nbytes characters, or fails when the input ends before that or cannot
\* be read (short).
CinRead(cin, short) == IF cin = "good" /\ ~short THEN "good" ELSE "fail"

StdinAdvanceAlways(pos, nbytes, good) == pos + nbytes

\* io_util.cc:157-162 pos_ after StdinStream::Read
StdinAdvance(pos, nbytes, good) == IF good THEN pos + nbytes ELSE pos

\* io_util.cc:155 StdinStream::Read
StdinRead(t, nbytes) ==
    /\ Quiet(t)
    /\ console.stdin + nbytes <= MaxPos
    /\ \E short \in BOOLEAN :
          LET cin == CinRead(console.cin, short)
              good == cin = "good"
          IN  /\ console' = [console EXCEPT !.cin = cin,
                                !.stdin = StdinAdvance(@, nbytes, good)]
              /\ call' = [call EXCEPT ![t] =
                     [op |-> "con_read", pc |-> "done", fd |-> -1, status |-> "OK",
                      nbytes |-> nbytes, delivered |-> good,
                      bytes_read |-> IF good THEN nbytes ELSE 0]]
    /\ UNCHANGED <<elsewhere, sigs, recent, environ, names>>

(***************************************************************************)
(* The JDBC consumers BitConsumer, IntConsumer and TimestampConsumer. jdbc  *)
(* is one consumer: kind is its class, vector the slots of its value       *)
(* vector (Uninit for a slot never set), currentIndex its field. op, given  *)
(* and wasNull record the last call, its vector argument and whether its   *)
(* column was SQL NULL; consumed lists what the non-null columns seen since *)
(* the vector was given were stored as, rows counts the consume calls.     *)
(***************************************************************************)
MaxRows == 3

\* What the column of a row can hold for each consumer: getBoolean, getInt
\* and getTimestamp give FALSE, 0 and null for SQL NULL (a null Timestamp
\* has no time to give: Uninit).
Columns(kind) ==
    IF kind = "BitConsumer"
    THEN {[null |-> TRUE, value |-> FALSE]} \cup {[null |-> FALSE, value |-> b] : b \in BOOLEAN}
    ELSE IF kind = "IntConsumer"
    THEN {[null |-> TRUE, value |-> 0]} \cup {[null |-> FALSE, value |-> i] : i \in {0, 7}}
    ELSE {[null |-> TRUE, value |-> [getTime |-> Uninit]]}
           \cup {[null |-> FALSE, value |-> [getTime |-> ms]] : ms \in {0, 1000}}

\* The value consume passes to setSafe: value ? 1 : 0, value, or
\* timestamp.getTime().
ColumnValue(kind, value) ==
    IF kind = "BitConsumer" THEN (IF value THEN 1 ELSE 0)
    ELSE IF kind = "IntConsumer" THEN value
    ELSE value.getTime

\* vector.setSafe(index, value): the vector grows to hold slot index (the
\* first slot is index 0) and the slot is set.
setSafe(vector, index, value) ==
    [i \in 1 .. Max(Len(vector), index + 1) |->
        IF i = index + 1 THEN value
        ELSE IF i <= Len(vector) THEN vector[i] ELSE Uninit]

\* The constructors: the vector is stored, currentIndex is 0 by default.
NewConsumer(kind, vector) ==
    /\ jdbc.kind = "none"
    /\ jdbc' = [jdbc EXCEPT !.kind = kind, !.vector = vector, !.currentIndex = 0,
                            !.op = "new", !.given = vector]
    /\ UNCHANGED <<platform, disk, fdtab, call, plan, maps, remap, tmpVars,
                   sigs, recent, environ, console, names>>

consumeAdvancingOnNull(col) ==
    /\ jdbc.kind # "none" /\ jdbc.rows < MaxRows
    /\ jdbc' = IF ~col.null
               THEN [jdbc EXCEPT
                       !.vector = setSafe(jdbc.vector, jdbc.currentIndex,
                                          ColumnValue(jdbc.kind, col.value)),
                       !.currentIndex = jdbc.currentIndex + 1,
                       !.consumed = Append(jdbc.consumed,
                                           ColumnValue(jdbc.kind, col.value)),
                       !.op = "consume", !.wasNull = FALSE, !.rows = jdbc.rows + 1]
               ELSE [jdbc EXCEPT !.currentIndex = jdbc.currentIndex + 1,
                                 !.op = "consume", !.wasNull = TRUE,
                                 !.rows = jdbc.rows + 1]
    /\ UNCHANGED <<platform, disk, fdtab, call, plan, maps, remap, tmpVars,
                   sigs, recent, environ, console, names>>

\* consume(resultSet), col being the column of the current row:
\* if (!resultSet.wasNull()) vector.setSafe(currentIndex++, value)
consume(col) ==
    /\ jdbc.kind # "none" /\ jdbc.rows < MaxRows
    /\ jdbc' = IF ~col.null
               THEN [jdbc EXCEPT
                       !.vector = setSafe(jdbc.vector, jdbc.currentIndex,
                                          ColumnValue(jdbc.kind, col.value)),
                       !.currentIndex = jdbc.currentIndex + 1,
                       !.consumed = Append(jdbc.consumed,
                                           ColumnValue(jdbc.kind, col.value)),
                       !.op = "consume", !.wasNull = FALSE, !.rows = jdbc.rows + 1]
               ELSE [jdbc EXCEPT !.op = "consume", !.wasNull = TRUE,
                                 !.rows = jdbc.rows + 1]
    /\ UNCHANGED <<platform, disk, fdtab, call, plan, maps, remap, tmpVars,
                   sigs, recent, environ, console, names>>

\* resetValueVector(vector): this.vector = vector; this.currentIndex = 0
resetValueVector(vector) ==
    /\ jdbc.kind # "none"
    /\ jdbc' = [jdbc EXCEPT !.vector = vector, !.currentIndex = 0,
                            !.op = "reset", !.given = vector,
                            !.consumed = <<>>, !.rows = 0]
    /\ UNCHANGED <<platform, disk, fdtab, call, plan, maps, remap, tmpVars,
                   sigs, recent, environ, console, names>>

\* The process before any of these operations.
NoProcess ==
    /\ sigs = [s \in SignalNumbers |-> "SIG_DFL"]
    /\ recent = sigs
    /\ environ = [n \in EnvNames |-> Unset]
    /\ console = [stdout |-> 0, stderr |-> 0, stdin |-> 0, cin |-> "good"]
    /\ names = NoName
    /\ jdbc = [kind |-> "none", vector |-> <<>>, currentIndex |-> 0,
               op |-> "none", given |-> <<>>, wasNull |-> FALSE,
               consumed |-> <<>>, rows |-> 0]

(***************************************************************************)
(* Specifications. Each starts from a disk the program may find and lets   *)
(* one caller (two for SpecReadAt) issue the operations it is about.       *)
(***************************************************************************)
\* What the file may hold before the program starts.
InitContents == SeqsUpTo(Byte, MaxFileLen)

InitDisks ==
    {[p \in Paths |-> IF p = DirPath THEN Directory ELSE f] :
        f \in {NoFile} \cup {RegularFile(d) : d \in InitContents}}

InitFiles ==
    /\ platform \in Platforms
    /\ disk \in InitDisks
    /\ fdtab = [fd \in Fds |-> ClosedFd]
    /\ call = [t \in Threads |-> Idle]
    /\ plan = <<>>
    /\ maps = {}
    /\ remap = NoRemap
    /\ NoDirectories
    /\ NoProcess

ReadOps(t) ==
    \/ \E fd \in Fds, nbytes \in 0 .. MaxIoChunk + 1 : FileReadBegin(t, fd, nbytes)
    \/ FileReadStep(t)
    \/ FileReadReturn(t)

ReadAtOps(t) ==
    \/ \E fd \in Fds, position \in 0 .. MaxFileLen, nbytes \in 0 .. MaxIoChunk + 1 :
          FileReadAtBegin(t, fd, position, nbytes)
    \/ FileReadAtStep(t)
    \/ FileReadAtReturn(t)

WriteOps(t) ==
    \/ \E fd \in Fds, buffer \in Buffers : FileWriteBegin(t, fd, buffer)
    \/ FileWriteStep(t)
    \/ FileWriteReturn(t)

\* Opening, sizing and closing.
NextOpen ==
    \/ \E path \in Paths : FileOpenReadable("t1", path)
    \/ \E path \in Paths, wo, tr, ap \in BOOLEAN :
          FileOpenWritable("t1", path, wo, tr, ap)
    \/ \E fd \in Fds : FileClose("t1", fd)
    \/ \E fd \in Fds : FileTell("t1", fd)
    \/ \E fd \in Fds, pos \in 0 .. MaxFileLen : FileSeek("t1", fd, pos, SEEK_SET)
    \/ \E fd \in Fds : FileGetSize("t1", fd)

SpecOpen == InitFiles /\ [][NextOpen]_vars

\* Reading a file that nothing writes.
NextRead ==
    \/ FileOpenReadable("t1", FilePath)
    \/ \E fd \in Fds : FileClose("t1", fd)
    \/ \E fd \in Fds, pos \in 0 .. MaxFileLen : FileSeek("t1", fd, pos, SEEK_SET)
    \/ ReadOps("t1")
    \/ ReadAtOps("t1")

SpecRead == InitFiles /\ [][NextRead]_vars

\* Writing through handles opened with any flags.
NextWrite ==
    \/ \E wo, tr, ap \in BOOLEAN : FileOpenWritable("t1", FilePath, wo, tr, ap)
    \/ \E fd \in Fds : FileClose("t1", fd)
    \/ \E fd \in Fds, pos \in 0 .. MaxFileLen : FileSeek("t1", fd, pos, SEEK_SET)
    \/ WriteOps("t1")

SpecWrite == InitFiles /\ [][NextWrite]_vars

\* The same, a call of FileWrite that can take a step being run on.
SpecWriteFair ==
    SpecWrite /\ WF_vars(FileWriteStep("t1")) /\ WF_vars(FileWriteReturn("t1"))

\* The three chunked loops on one handle open for reading and writing.
NextLoops ==
    \/ \E ap \in BOOLEAN : FileOpenWritable("t1", FilePath, FALSE, FALSE, ap)
    \/ \E fd \in Fds, pos \in 0 .. MaxFileLen : FileSeek("t1", fd, pos, SEEK_SET)
    \/ ReadOps("t1")
    \/ ReadAtOps("t1")
    \/ WriteOps("t1")

SpecLoops == InitFiles /\ [][NextLoops]_vars

\* The round trip of one caller: OpenWritable with truncate, Write(plan),
\* Close, OpenReadable, Read(Len(plan)).
InitRoundTrip ==
    /\ platform \in Platforms
    /\ disk \in InitDisks
    /\ fdtab = [fd \in Fds |-> ClosedFd]
    /\ call = [t \in Threads |-> Idle]
    /\ plan \in Buffers
    /\ maps = {}
    /\ remap = NoRemap
    /\ NoDirectories
    /\ NoProcess

NextRoundTrip ==
    \/ /\ call["t1"].op = "none"
       /\ \E wo, ap \in BOOLEAN : FileOpenWritable("t1", FilePath, wo, TRUE, ap)
    \/ /\ Returned("t1", "open_w") /\ call["t1"].status = "OK"
       /\ FileWriteBegin("t1", call["t1"].fd, plan)
    \/ FileWriteStep("t1")
    \/ FileWriteReturn("t1")
    \/ /\ Returned("t1", "write") /\ call["t1"].status = "OK"
       /\ FileClose("t1", call["t1"].fd)
    \/ /\ Returned("t1", "close")
       /\ FileOpenReadable("t1", FilePath)
    \/ /\ Returned("t1", "open_r") /\ call["t1"].status = "OK"
       /\ FileReadBegin("t1", call["t1"].fd, Len(plan))
    \/ FileReadStep("t1")
    \/ FileReadReturn("t1")

SpecRoundTrip == InitRoundTrip /\ [][NextRoundTrip]_vars

\* Two threads issuing positioned reads on one handle at offsets of their
\* own (t1 from the start of the file, t2 further on), the cursor being
\* moved only between calls. The file holds 1, 0, 1, ... to some length.
Pattern(n) == [i \in 1 .. n |-> i % 2]

InitReadAt ==
    /\ platform \in Platforms
    /\ disk \in {[p \in Paths |-> IF p = DirPath THEN Directory
                                  ELSE RegularFile(Pattern(n))] : n \in 1 .. MaxFileLen}
    /\ fdtab = [fd \in Fds |-> ClosedFd]
    /\ call = [t \in Threads |-> Idle]
    /\ plan = <<>>
    /\ maps = {}
    /\ remap = NoRemap
    /\ NoDirectories
    /\ NoProcess

ReadAtOffsets(t) == IF t = "t1" THEN {0} ELSE 1 .. MaxFileLen

NextReadAt ==
    \/ FileOpenReadable("t1", FilePath)
    \/ \E fd \in Fds, pos \in {0, MaxFileLen} : FileSeek("t1", fd, pos, SEEK_SET)
    \/ \E t \in Threads, fd \in Fds, nbytes \in 1 .. MaxIoChunk + 1 :
          \E position \in ReadAtOffsets(t) : FileReadAtBegin(t, fd, position, nbytes)
    \/ \E t \in Threads : FileReadAtStep(t)
    \/ \E t \in Threads : FileReadAtReturn(t)

SpecReadAt == InitReadAt /\ [][NextReadAt]_vars

\* Resizing a mapping of a file open for reading and writing.
InitMap ==
    /\ platform \in Platforms
    /\ \E d \in InitContents \ {<<>>} :
          /\ disk = [p \in Paths |-> IF p = DirPath THEN Directory ELSE RegularFile(d)]
          /\ maps = {[addr |-> 1, size |-> Len(d)]}
    /\ fdtab = [fd \in Fds |->
                   OsOpenFd(FilePath, WritableOflag(FALSE, FALSE, FALSE))]
    /\ call = [t \in Threads |-> Idle]
    /\ plan = <<>>
    /\ remap = NoRemap
    /\ NoDirectories
    /\ NoProcess

NextMap ==
    \/ \E fd \in Fds : MemoryMapRemap(fd)
    \/ \E fd \in Fds : MapStore(fd)

SpecMap == InitMap /\ [][NextMap]_vars

\* Temporary directories being made, filled, deleted and destroyed.
InitTmp ==
    /\ platform \in Platforms
    /\ disk = [p \in Paths |-> IF p = DirPath THEN Directory ELSE NoFile]
    /\ fdtab = [fd \in Fds |-> ClosedFd]
    /\ call = [t \in Threads |-> Idle]
    /\ plan = <<>>
    /\ maps = {}
    /\ remap = NoRemap
    /\ NoDirectories
    /\ NoProcess

NextTmp ==
    \/ \E o \in ObjIds : TemporaryDirMake(o)
    \/ \E o \in ObjIds : TemporaryDirDestroy(o)
    \/ \E n \in Kids \cup Grandkids : CreateDir(n)
    \/ \E n \in Kids \cup Grandkids : PutFile(n)
    \/ \E n \in Nodes : DeleteDirTree(n)

SpecTmp == InitTmp /\ [][NextTmp]_vars

\* The directory operations on their own, on one tree that also holds files
\* and symbolic links.
NextDir ==
    \/ \E n \in Under(<<"s1">>) : CreateDir(n)
    \/ \E n \in Under(<<"s1">>) : PutFile(n)
    \/ \E n \in Under(<<"s1">>) : PutLink(n)
    \/ \E n \in Under(<<"s1">>) : DeleteDirTree(n)
    \/ \E n \in Under(<<"s1">>) : DeleteDirContents(n)
    \/ \E n \in Under(<<"s1">>) : DeleteFile(n)

SpecDir == InitTmp /\ [][NextDir]_vars

\* File names made from every text up to MaxNameLen bytes and shown again.
NextName ==
    \/ \E file_name \in SeqsUpTo(Chars, MaxNameLen) : FromString(file_name)
    \/ ToStringCall

SpecName == InitTmp /\ [][NextName]_vars

\* The environment of the process, read and changed by one thread.
NextEnv ==
    \/ \E name \in EnvNames : GetEnvVar("t1", name)
    \/ \E name \in EnvNames, value \in SeqsUpTo(Byte, MaxValueLen) :
          SetEnvVar("t1", name, value)
    \/ \E name \in EnvNames : DelEnvVar("t1", name)

SpecEnv == InitTmp /\ [][NextEnv]_vars

\* The console streams, written and read by one thread.
NextConsole ==
    \/ \E stream \in {"stdout", "stderr", "stdin"} : ConsoleTell("t1", stream)
    \/ \E stream \in {"stdout", "stderr"}, nbytes \in 0 .. 2 :
          ConsoleWrite("t1", stream, nbytes)
    \/ \E nbytes \in 0 .. 2 : StdinRead("t1", nbytes)

SpecConsole == InitTmp /\ [][NextConsole]_vars

\* One consumer of each class, given vectors that are empty or hold a value
\* already.
NextJdbc ==
    \/ \E kind \in {"BitConsumer", "IntConsumer", "TimestampConsumer"},
          vector \in {<<>>, <<5>>, <<5, 5>>} : NewConsumer(kind, vector)
    \/ \E col \in Columns(jdbc.kind) : consume(col)
    \/ \E vector \in {<<>>, <<5>>, <<5, 5>>} : resetValueVector(vector)

SpecJdbc == InitTmp /\ [][NextJdbc]_vars

\* Signal dispositions, read and set from two threads. The callers take
\* turns: no call starts while a call of the other thread is under way.
NextSignal ==
    \E t \in Threads :
        /\ \A u \in Threads \ {t} : Quiet(u)
        /\ \/ \E signum \in SignalNumbers : GetSignalHandler(t, signum)
           \/ GetSignalHandlerRestore(t)
           \/ \E signum \in SignalNumbers,
                    handler \in {"SIG_DFL", "SIG_IGN", "cb1", "cb2"} :
                 SetSignalHandler(t, signum, handler)

SpecSignal == InitTmp /\ [][NextSignal]_vars

(***************************************************************************)
(* Claims                                                                  *)
(***************************************************************************)
FileData == disk[FilePath].data

\* C1: after OpenWritable(truncate), Write(B), Close, OpenReadable, a
\* Read(Len(B)) that returns OK has bytesRead = Len(B) and delivers exactly
\* the bytes B, whatever the sizes of the sub-writes and sub-reads were.
C1_RoundTrip ==
    (Returned("t1", "read") /\ call["t1"].status = "OK") =>
        /\ call["t1"].bytes_read = Len(plan)
        /\ call["t1"].buffer = plan

\* A round trip of more bytes than one chunk has come back.
C1_RoundTripAcrossChunks ==
    /\ Returned("t1", "read") /\ call["t1"].status = "OK"
    /\ Len(plan) > MaxIoChunk
    /\ call["t1"].buffer = plan

\* The bytes left in the file from the offset a read call started at.
Remaining(c) == Max(0, Len(FileData) - c.position0)

\* C2: a returned Read / ReadAt is an IOError exactly when its last sub-read
\* failed; otherwise it is OK with bytesRead = min(nbytes, bytes left from
\* the start offset), those being the file's bytes from that offset.
C2_ReadStopsAtEndOfFile ==
    \A t \in Threads :
        LET c == call[t]
        IN  (c.op \in {"read", "readat"} /\ c.pc = "done") =>
               /\ c.status = "IOError" <=> c.ret = -1
               /\ c.status = "OK" =>
                     /\ c.bytes_read = Min(c.nbytes, Remaining(c))
                     /\ SubSeq(c.buffer, 1, c.bytes_read)
                          = BytesAt(FileData, c.position0, c.bytes_read)

\* A read that was cut short by the end of the file, without an error.
C2_ShortReadAtEndOfFile ==
    \E t \in Threads :
        LET c == call[t]
        IN  /\ c.op \in {"read", "readat"} /\ c.pc = "done"
            /\ c.status = "OK" /\ c.ret = 0
            /\ 0 < c.bytes_read /\ c.bytes_read < c.nbytes

\* C3: OpenWritable with append leaves the cursor at the end of the file, and
\* a Write through a handle opened with append only adds the bytes it
\* transferred after the bytes the file held, wherever the cursor was.
C3_AppendNeverOverwrites ==
    \A t \in Threads :
        LET c == call[t]
        IN  /\ (Returned(t, "open_w") /\ c.append /\ c.status = "OK") =>
                  fdtab[c.fd].pos = Len(disk[c.path].data)
            /\ (c.op = "write" /\ fdtab[c.fd].append) =>
                  FileData = c.data0 \o SubSeq(c.buffer, 1, c.bytes_written)

\* An append-mode Write that returned OK after the cursor had been moved
\* back into the bytes the file held.
C3_AppendAfterSeekBack ==
    \E t \in Threads :
        LET c == call[t]
        IN  /\ Returned(t, "write") /\ fdtab[c.fd].append /\ c.status = "OK"
            /\ c.nbytes > 0 /\ c.pos0 < Len(c.data0)

\* C7 as claimed: when st_size is 0 and the Tell probe fails, GetSize
\* returns OK with size 0.
C7_ProbeFailureIsSizeZero ==
    (Returned("t1", "getsize") /\ call["t1"].st_size = 0
        /\ call["t1"].tell_ret = -1) =>
        (call["t1"].status = "OK" /\ call["t1"].size = 0)

\* C7, amended: when st_size is 0, GetSize returns OK with size 0 if the
\* Tell probe succeeds, and the probe's IOError, storing no size, if it fails.
C7_ProbeFailureIsError ==
    (Returned("t1", "getsize") /\ call["t1"].st_size = 0) =>
        IF call["t1"].tell_ret = -1
        THEN call["t1"].status = "IOError" /\ call["t1"].size = Uninit
        ELSE call["t1"].status = "OK" /\ call["t1"].size = 0

\* GetSize on an empty file whose Tell probe failed.
C7_ProbeFailed ==
    /\ Returned("t1", "getsize")
    /\ call["t1"].st_size = 0 /\ call["t1"].tell_ret = -1

\* Where a write call's bytes go: the end of the file it found for an
\* append-mode handle, else the cursor it found.
WriteStart(c) == IF fdtab[c.fd].append THEN Len(c.data0) ELSE c.pos0

\* C8: once a sub-write has failed no other is issued, a returned Write is
\* OK exactly when no sub-write failed, and then all nbytes of the buffer
\* are in the file, in order.
C8_WriteAllOrError ==
    \A t \in Threads :
        LET c == call[t]
        IN  c.op = "write" =>
               /\ c.failed => c.ret = -1
               /\ c.pc = "done" =>
                     /\ c.status = "OK" <=> ~c.failed
                     /\ c.status = "IOError" <=> c.failed
                     /\ c.status = "OK" =>
                           /\ c.bytes_written = c.nbytes
                           /\ BytesAt(FileData, WriteStart(c), c.nbytes) = c.buffer

\* A Write that failed after part of the buffer had been written.
C8_FailureAfterPartialWrite ==
    \E t \in Threads :
        LET c == call[t]
        IN  /\ Returned(t, "write") /\ c.status = "IOError"
            /\ 0 < c.bytes_written /\ c.bytes_written < c.nbytes

\* C9: OpenReadable of a directory returns IOError, and whenever
\* OpenReadable returns IOError the descriptor the open call gave (if any)
\* is closed again.
C9_OpenReadableDirectoryFails ==
    Returned("t1", "open_r") =>
        /\ disk[call["t1"].path].kind = "dir" => call["t1"].status = "IOError"
        /\ call["t1"].status = "IOError" =>
              (call["t1"].fd = -1 \/ ~fdtab[call["t1"].fd].open)

\* open(2) succeeded on a directory and OpenReadable returned IOError.
C9_DirectoryWasOpened ==
    /\ Returned("t1", "open_r")
    /\ call["t1"].path = DirPath /\ call["t1"].fd # -1
    /\ call["t1"].status = "IOError"

\* The offsets a positioned read asked for.
Range(c) == {i \in 0 .. MaxFileLen + MaxIoChunk + 1 :
                c.position0 <= i /\ i < c.position0 + c.nbytes}

\* A returned ReadAt delivered the file's bytes of its own range.
ReadAtCorrect(c) ==
    (c.op = "readat" /\ c.pc = "done" /\ c.status = "OK") =>
        /\ c.bytes_read = Min(c.nbytes, Remaining(c))
        /\ SubSeq(c.buffer, 1, c.bytes_read)
             = BytesAt(FileData, c.position0, c.bytes_read)

\* A step of thread t inside FileReadAt.
ReadAtStepOf(t) == call'[t] # call[t] /\ call'[t].op = "readat"

\* C4 as claimed: no step of a ReadAt call changes the cursor of the handle.
C4_ReadAtKeepsCursor ==
    [][\A t \in Threads : ReadAtStepOf(t) => fdtab' = fdtab]_vars

\* C4, amended: every returned ReadAt delivers the file's bytes of its own
\* range whatever the cursor is and however the calls interleave; with
\* pread (Linux, macOS) no step of a ReadAt changes the cursor, while on
\* Windows a sub-read that delivers bytes leaves the cursor just past them.
C4_ReadAtIgnoresCursor ==
    /\ [](\A t \in Threads : ReadAtCorrect(call[t]))
    /\ [][\A t \in Threads : ReadAtStepOf(t) =>
             IF platform # "win32" THEN fdtab' = fdtab
             ELSE \A fd \in Fds :
                     \/ fdtab'[fd] = fdtab[fd]
                     \/ /\ call[t].op = "readat" /\ call[t].fd = fd
                        /\ fdtab'[fd] = [fdtab[fd] EXCEPT !.pos = call'[t].position]]_vars

\* Two ReadAt calls at disjoint ranges were in progress together and both
\* returned their bytes, while the cursor was elsewhere.
C4_ConcurrentDisjointReads ==
    /\ call["t1"].op = "readat" /\ call["t2"].op = "readat"
    /\ call["t1"].pc = "done" /\ call["t2"].pc = "loop"
    /\ call["t1"].status = "OK"
    /\ call["t1"].bytes_read > 0 /\ call["t2"].bytes_read > 0
    /\ Range(call["t1"]) \cap Range(call["t2"]) = {}
    /\ fdtab[call["t1"].fd].pos \notin Range(call["t1"])

\* The system call of the platform's branch that removes the old mapping.
UnmapStep == CASE platform = "linux" -> "mremap"
               [] platform = "apple" -> "munmap"
               [] platform = "win32" -> "UnmapViewOfFile"

\* C5 as claimed: whenever Remap returns an error, no mapping is active.
C5_ErrorLeavesNoMapping ==
    remap.status = "IOError" => maps = {}

\* C5, amended: whenever Remap returns an error it returns MAP_FAILED as the
\* new address and has made no new mapping; the old mapping is gone if its
\* unmap step (munmap, UnmapViewOfFile) had succeeded before the failure,
\* and is still active if that step itself failed and, on the mremap
\* branch, after every failure.
C5_ErrorKeepsOrDropsOldMapping ==
    remap.status = "IOError" =>
        /\ remap.new_addr = MAP_FAILED
        /\ maps = IF platform = "linux" \/ UnmapStep \in remap.failed
                  THEN {remap.old} ELSE {}

\* Remap failed after its unmap step: no mapping is left.
C5_FailedAfterUnmap ==
    /\ remap.status = "IOError"
    /\ platform # "linux" /\ UnmapStep \notin remap.failed
    /\ maps = {}

\* C6: after a Remap that returned OK the file has length new_size, the
\* mapping returned is active with new_size bytes, and every byte below
\* min(old size, new size) is the byte that was there before the call.
C6_RemapResizesAndPreserves ==
    remap.status = "OK" =>
        /\ Len(FileData) = remap.new_size
        /\ maps = {[addr |-> remap.new_addr, size |-> remap.new_size]}
        /\ \A i \in 1 .. Min(remap.old.size, remap.new_size) :
              i <= Len(remap.data0) => FileData[i] = remap.data0[i]

\* C10 as claimed: after a TemporaryDir is destroyed nothing exists at or
\* under its path.
C10_DestroyLeavesNoTrace ==
    last.op = "Destroy" => \A n \in Under(last.path) : fs[n] = "none"

\* C10, amended: the destructor attempts the recursive deletion exactly once
\* per object and never fails; when the deletion succeeded nothing exists
\* at or under the path; when it failed a warning is logged, and what the
\* deletion had not removed stays on disk.
C10_DestroyDeletesOnceOrWarns ==
    /\ \A o \in ObjIds :
          /\ objs[o].state = "destroyed" => objs[o].deletions = 1
          /\ objs[o].state # "destroyed" => objs[o].deletions = 0
    /\ last.op = "Destroy" =>
          /\ objs[last.obj].state = "destroyed"
          /\ objs[last.obj].warned <=> last.status = "IOError"
          /\ last.status = "OK" => \A n \in Under(last.path) : fs[n] = "none"

\* A TemporaryDir whose directory held a subtree was destroyed and the
\* deletion succeeded; another object is still alive.
C10_DestroyedWithContents ==
    /\ last.op = "Destroy" /\ last.status = "OK"
    /\ \E o \in ObjIds : objs[o].state = "live" /\ fs[objs[o].path] = "dir"

\* C11: when TemporaryDir::Make draws a name that is already there it returns
\* IOError, makes no TemporaryDir object (so no destructor will delete the
\* path on its account) and leaves the disk as it was.
C11_MakeCollisionFails ==
    [][(last'.op = "Make" /\ fs[last'.path] # "none") =>
          /\ last'.status = "IOError"
          /\ objs' = objs
          /\ fs' = fs]_vars

C11_CollisionWithContents ==
    /\ last.op = "Make" /\ last.status = "IOError"
    /\ fs[last.path] = "dir" /\ NonEmpty(fs, last.path)
    /\ \E o \in ObjIds : objs[o].state = "unborn"

\* C12: CreateDir on a path that is a directory returns OK with created =
\* false and changes nothing; on a path that is not there, in a directory,
\* it returns OK with created = true and makes the directory, unless the
\* system call fails.
C12_CreateDirCreatesOnce ==
    [][last'.op = "CreateDir" =>
          LET p == last'.path
          IN  /\ fs[p] = "dir" =>
                    last'.status = "OK" /\ ~last'.created /\ fs' = fs
              /\ (fs[p] = "none" /\ KindOf(fs, Parent(p)) = "dir" /\ ~last'.oserror) =>
                    /\ last'.status = "OK" /\ last'.created
                    /\ fs' = [fs EXCEPT ![p] = "dir"]]_vars

C12_CreateDirOnDirectoryWithContents ==
    /\ last.op = "CreateDir" /\ last.status = "OK" /\ ~last.created
    /\ last.was = "dir" /\ last.nonempty /\ NonEmpty(fs, last.path)

\* C13: DeleteDirTree on a path that is not there returns OK with deleted =
\* false; on a file or a symbolic link it returns IOError and removes
\* nothing; on a directory it removes the directory and all below it and
\* returns deleted = true, unless a system call fails.
C13_DeleteDirTreeByKind ==
    [][last'.op = "DeleteDirTree" =>
          LET p == last'.path
          IN  /\ (fs[p] = "none" /\ ~last'.oserror) =>
                    last'.status = "OK" /\ ~last'.deleted /\ fs' = fs
              /\ fs[p] \in {"file", "link"} =>
                    last'.status = "IOError" /\ fs' = fs
              /\ (fs[p] = "dir" /\ ~last'.oserror) =>
                    /\ last'.status = "OK" /\ last'.deleted
                    /\ fs' = Removed(fs, Under(p))]_vars

C13_DeleteDirTreeOnLink ==
    /\ last.op = "DeleteDirTree" /\ last.status = "IOError"
    /\ last.was = "link" /\ fs[last.path] = "link"

\* C14: DeleteFile on a directory returns IOError and leaves the directory
\* and what is in it; on a path that is not there it returns OK with
\* deleted = false; on a file or a symbolic link it removes it and returns
\* deleted = true, unless a system call fails.
C14_DeleteFileByKind ==
    [][last'.op = "DeleteFile" =>
          LET p == last'.path
          IN  /\ fs[p] = "dir" => last'.status = "IOError" /\ fs' = fs
              /\ (fs[p] = "none" /\ ~last'.oserror) =>
                    last'.status = "OK" /\ ~last'.deleted /\ fs' = fs
              /\ (fs[p] \in {"file", "link"} /\ ~last'.oserror) =>
                    /\ last'.status = "OK" /\ last'.deleted
                    /\ fs' = [fs EXCEPT ![p] = "none"]]_vars

C14_DeleteFileOnDirectory ==
    /\ last.op = "DeleteFile" /\ last.status = "IOError" /\ ~last.oserror
    /\ last.was = "dir" /\ fs[last.path] = "dir"

\* C15: DeleteDirContents on a directory removes all that is below it and
\* leaves the directory, empty, and all that is outside it; on a path that
\* is not there it returns OK with deleted = false; on a file or a symbolic
\* link it returns IOError and removes nothing; a failing system call apart.
C15_DeleteDirContentsKeepsDirectory ==
    [][last'.op = "DeleteDirContents" =>
          LET p == last'.path
          IN  /\ (fs[p] = "dir" /\ ~last'.oserror) =>
                    /\ last'.status = "OK" /\ last'.deleted
                    /\ fs'[p] = "dir" /\ ~NonEmpty(fs', p)
                    /\ \A n \in Nodes \ Below(p) : fs'[n] = fs[n]
              /\ (fs[p] = "none" /\ ~last'.oserror) =>
                    last'.status = "OK" /\ ~last'.deleted /\ fs' = fs
              /\ fs[p] \in {"file", "link"} =>
                    last'.status = "IOError" /\ fs' = fs]_vars

C15_ContentsDeleted ==
    /\ last.op = "DeleteDirContents" /\ last.status = "OK" /\ last.deleted
    /\ last.was = "dir" /\ last.nonempty
    /\ fs[last.path] = "dir" /\ ~NonEmpty(fs, last.path)

\* C16: when GetSignalHandler returns, the disposition installed for the
\* signal is the one that was installed when it was called, no other
\* disposition has changed, and a call that returns OK returns that
\* disposition; also where the build has no sigaction and the call installs
\* SIG_IGN and puts the handler back.
C16_GetLeavesDisposition ==
    [][\A t \in Threads :
          (call'[t] # call[t] /\ call'[t].op = "sig_get" /\ call'[t].pc = "done") =>
              /\ sigs' = [sigs EXCEPT ![call'[t].signum] = call'[t].before]
              /\ call'[t].status = "OK" => call'[t].cb = call'[t].before]_vars

C16_GetWithoutSigaction ==
    \E t \in Threads :
        /\ ~ARROW_HAVE_SIGACTION
        /\ call[t].op = "sig_get" /\ call[t].pc = "done" /\ call[t].status = "OK"
        /\ call[t].cb \in {"cb1", "cb2"}
        /\ sigs[call[t].signum] = call[t].cb

\* C17: a SetSignalHandler call that returns OK, from whichever thread, has
\* installed its handler for the whole process and returns the disposition
\* that was installed just before it; one that fails changes nothing; and a
\* GetSignalHandler call that returns OK returns the handler of the last
\* SetSignalHandler call that returned OK for the signal.
C17_LastWriterWins ==
    [][\A t \in Threads :
          /\ (call'[t] # call[t] /\ call'[t].op = "sig_set") =>
                IF call'[t].status = "OK"
                THEN /\ call'[t].old_handler = sigs[call'[t].signum]
                     /\ sigs' = [sigs EXCEPT ![call'[t].signum] = call'[t].handler]
                ELSE sigs' = sigs
          /\ (call'[t] # call[t] /\ call'[t].op = "sig_get" /\ call'[t].pc = "done"
                /\ call'[t].status = "OK") =>
                call'[t].cb = recent[call'[t].signum]]_vars

C17_SetThenGetAcrossThreads ==
    /\ call["t1"].op = "sig_set" /\ call["t1"].status = "OK"
    /\ call["t1"].handler = "cb2" /\ call["t1"].old_handler = "cb1"
    /\ call["t2"].op = "sig_get" /\ call["t2"].pc = "done" /\ call["t2"].status = "OK"
    /\ call["t2"].signum = call["t1"].signum
    /\ call["t2"].cb = "cb2"

C19_ConsolePositionAdvances ==
    /\ [](call["t1"].op = "none" =>
            \A s \in {"stdout", "stderr", "stdin"} : console[s] = 0)
    /\ [][LET c == call'["t1"]
          IN  /\ \A s \in {"stdout", "stderr", "stdin"} : console'[s] >= console[s]
              /\ c.op = "con_tell" =>
                    c.position = console[c.stream] /\ console' = console
              /\ c.op = "con_write" =>
                    console' = [console EXCEPT ![c.stream] = @ + c.nbytes]
              /\ c.op = "con_read" =>
                    /\ console'.stdout = console.stdout
                    /\ console'.stderr = console.stderr
                    /\ IF c.delivered
                       THEN /\ c.bytes_read = c.nbytes
                            /\ console'.stdin = console.stdin + c.nbytes
                       ELSE /\ c.bytes_read = 0
                            /\ console'.stdin = console.stdin]_vars

C19_ReadFailsAfterDelivery ==
    /\ call["t1"].op = "con_read" /\ ~call["t1"].delivered
    /\ call["t1"].nbytes > 0 /\ call["t1"].bytes_read = 0
    /\ console.stdin > 0 /\ console.stdout > 0

\* C20: GetEnvVar gives what the environment holds for the name: the value
\* that the last SetEnvVar that returned OK gave it, and KeyError for a
\* name that was never given a value or that DelEnvVar has removed.
C20_GetEnvVarReadsTheMap ==
    LET c == call["t1"]
    IN  c.op = "getenv" =>
            IF environ[c.name] = Unset
            THEN c.status = "KeyError"
            ELSE c.status = "OK" /\ c.out = environ[c.name]

\* C21: MemoryMapRemap returns OK only when the mapping it returns is active
\* with new_size bytes and the file has new_size bytes, and it returns
\* IOError whenever one of its system calls has failed.
C21_RemapOkOnlyWithMapping ==
    /\ remap.status = "OK" =>
          /\ maps = {[addr |-> remap.new_addr, size |-> remap.new_size]}
          /\ Len(FileData) = remap.new_size
    /\ (remap.status # "none" /\ remap.failed # {}) => remap.status = "IOError"

\* C22: a descriptor becomes open only in a step in which OpenReadable or
\* OpenWritable returns OK with that descriptor, a Close that returns OK
\* leaves its descriptor closed, Close returns IOError when close fails, and
\* a descriptor stops being open only in a Close of it.
C22_HandleLifeCycle ==
    [][\A fd \in Fds :
         LET c == call'["t1"]
         IN  /\ (~fdtab[fd].open /\ fdtab'[fd].open) =>
                   /\ c.op \in {"open_r", "open_w"}
                   /\ c.status = "OK" /\ c.fd = fd
             /\ (fdtab[fd].open /\ ~fdtab'[fd].open) =>
                   (c.op = "close" /\ c.fd = fd)
             /\ (c.op = "close" /\ c.fd = fd) =>
                   /\ ~fdtab'[fd].open
                   /\ c.ret = -1 => c.status = "IOError"
                   /\ c.ret # -1 => c.status = "OK"]_vars

\* close failed on an open descriptor: Close returned IOError and the
\* descriptor is not open.
C22_CloseFailed ==
    /\ Returned("t1", "close")
    /\ call["t1"].ret = -1 /\ call["t1"].status = "IOError"
    /\ ~fdtab[call["t1"].fd].open

\* The running total of a Read, ReadAt or Write call.
Transferred(c) == IF c.op = "write" THEN c.bytes_written ELSE c.bytes_read

\* C23: in the loops of Read, ReadAt and Write every sub-call asks for
\* min(ARROW_MAX_IO_CHUNKSIZE, nbytes - transferred) bytes, which is more
\* than 0 and no more than what remains; the running total never exceeds
\* nbytes; and in ReadAt the offset and the place in the destination move
\* on by the count the sub-read returned.
C23_ChunkedSubCalls ==
    [][LET c == call["t1"]
           d == call'["t1"]
           left == c.nbytes - Transferred(c)
           got == IF d.ret > 0 THEN d.ret ELSE 0
       IN  (c.op \in {"read", "readat", "write"} /\ c.pc = "loop" /\ d.pc # "done") =>
              /\ d.chunksize = (IF MaxIoChunk < left THEN MaxIoChunk ELSE left)
              /\ 0 < d.chunksize /\ d.chunksize <= left
              /\ Transferred(d) <= d.nbytes
              /\ c.op = "readat" =>
                    /\ d.position = c.position + got
                    /\ d.boff = c.boff + got]_vars

\* A ReadAt of more than one chunk whose last sub-read asked for the one
\* byte that was left.
C23_LastChunkIsShort ==
    LET c == call["t1"]
    IN  /\ c.op = "readat" /\ c.pc = "loop"
        /\ c.nbytes = MaxIoChunk + 1 /\ c.bytes_read = c.nbytes
        /\ c.chunksize = 1 /\ c.position = c.position0 + c.nbytes

\* C24: a call of FileWrite returns after finitely many sub-writes, whatever
\* write returns each time (-1, or a count from 0 to the count asked for).
C24_WriteTerminates ==
    (call["t1"].op = "write" /\ call["t1"].pc = "loop") ~> Returned("t1", "write")

\* C25: a Read or ReadAt call in which a sub-read failed returns IOError
\* with bytes_read = -1, also when earlier sub-reads of the call had put
\* bytes in the buffer; and bytes_read is not negative when the call
\* returns OK.
C25_FailedReadReportsMinusOne ==
    \A t \in Threads :
        LET c == call[t]
        IN  (c.op \in {"read", "readat"} /\ c.pc = "done") =>
               /\ c.ret = -1 => (c.status = "IOError" /\ c.bytes_read = -1)
               /\ c.status = "OK" => c.bytes_read >= 0

\* A sub-read failed after an earlier one had delivered bytes.
C25_FailedAfterDelivery ==
    LET c == call["t1"]
    IN  /\ Returned("t1", "read")
        /\ c.ret = -1 /\ c.boff > 0
        /\ c.status = "IOError" /\ c.bytes_read = -1

\* C26: an OpenWritable call that returns an error leaves no descriptor
\* open that was not open before it: when open fails there is no
\* descriptor, and when the seek to the end that append asks for fails the
\* descriptor that open gave is closed again.
C26_FailedOpenWritableLeavesNoHandle ==
    [][LET c == call'["t1"]
       IN  (c.op = "open_w" /\ c.status # "OK") =>
              /\ \A fd \in Fds : fdtab'[fd].open => fdtab[fd].open
              /\ c.fd # -1 => ~fdtab'[c.fd].open]_vars

\* open succeeded, the seek to the end failed, and the descriptor is closed.
C26_SeekToEndFailed ==
    LET c == call["t1"]
    IN  /\ Returned("t1", "open_w")
        /\ c.append /\ c.status = "IOError" /\ c.fd # -1
        /\ ~fdtab[c.fd].open

\* C27: in a JDBC consumer currentIndex is the number of non-null columns
\* consumed since the vector was given (at construction or by
\* resetValueVector) and the k-th of them is in slot k - 1 of the vector; a
\* consume call whose column is null leaves the vector and currentIndex as
\* they were; resetValueVector makes the vector it is given the consumer's
\* and currentIndex 0.
C27_IndexCountsNonNull ==
    /\ [](jdbc.kind # "none" =>
            /\ jdbc.currentIndex = Len(jdbc.consumed)
            /\ Len(jdbc.vector) >= Len(jdbc.consumed)
            /\ \A k \in 1 .. Len(jdbc.consumed) : jdbc.vector[k] = jdbc.consumed[k]
            /\ jdbc.op = "reset" => (jdbc.vector = jdbc.given /\ jdbc.currentIndex = 0))
    /\ [][(jdbc'.op = "consume" /\ jdbc'.wasNull /\ jdbc'.rows = jdbc.rows + 1) =>
             (jdbc'.vector = jdbc.vector /\ jdbc'.currentIndex = jdbc.currentIndex)]_vars

\* Two values consumed with a null column between and after them, into a
\* vector that resetValueVector gave.
C27_NullsBetweenValues ==
    /\ jdbc.op = "consume" /\ jdbc.wasNull
    /\ jdbc.rows = 3 /\ jdbc.currentIndex = 2
    /\ jdbc.given = <<5>> /\ jdbc.vector = <<7, 0>>

====
